---- MODULE Spec2Model ----
(***************************************************************************)
(* Claim coordination and listing inventory ledger of the community-garden  *)
(* backend (backend/src/api/handlers/claim.rs, listing.rs, router.rs).      *)
(*                                                                          *)
(* The store holds two tables, surplus_listings and claims.  Handlers are   *)
(* modelled twice from the same row-level operators: as whole-handler       *)
(* actions (Spec, one clock reading) and as transactions split at their     *)
(* row-lock waits, where two connections interleave and the clock advances. *)
(***************************************************************************)
EXTENDS Integers, Sequences, FiniteSets, TLC

\* ------------------------------------------------------------------ bounds
MaxTotal == 2       \* largest quantityTotal a listing payload carries
MaxQty == 2         \* largest quantityClaimed a claim payload carries
MaxClock == 1       \* last reading of the store clock

\* ------------------------------------------------------------------ values
\* SQL NULL / Rust Option: None is the empty tuple, Some(v) a one-tuple.
None == << >>
Some(v) == << v >>
IsNull(o) == o = None
Unwrap(o) == o[1]

ListingIds == {"l1"}
AllListingIds == {"l1", "l2"}
ClaimIds == {1, 2}            \* claim ids, handed out in this order
Growers == {"g"}
Gatherers == {"a"}
Users == Growers \cup Gatherers \cup {"x"}
AllGrowers == Growers \cup {"h"}       \* callers whose user type is Grower
AllGatherers == Gatherers \cup {"b"}   \* callers whose user type is Gatherer
CropIds == {"c1", "c2"}
RequestIds == {"r1"}
IdempotencyKeys == {"k1", "k2"}
NoteTexts == {"n1"}
OptNotes == {None} \cup {Some(n) : n \in NoteTexts}

ALLOWED_CLAIM_STATUSES == {"pending", "confirmed", "completed", "cancelled", "no_show"}
\* Mutant: expired listings are claimable too.
CLAIMABLE_LISTING_STATUSES_with_expired == {"active", "pending", "claimed", "expired"}
CLAIMABLE_LISTING_STATUSES == {"active", "pending", "claimed"}
ALLOWED_LISTING_STATUS == {"active", "pending", "claimed", "expired", "completed"}
ALLOWED_REQUEST_STATUS == {"open", "matched", "closed"}

\* ------------------------------------------------------------------ errors
MsgNotParticipant == "Forbidden: You are not a participant in this claim"
MsgOwnerConfirm == "Forbidden: Only listing owner can confirm a pending claim"
MsgOwnerNoShow == "Forbidden: Only listing owner can mark no_show"
\* format!("Invalid claim transition from '{}' to '{}'", current, target)
InvalidTransitionMessage(current, target) ==
    "Invalid claim transition from '" \o current \o "' to '" \o target \o "'"
MsgInsufficient == "Insufficient quantity remaining"
MsgNotClaimable == "Listing is not claimable in its current status"
MsgClaimNotFound == "Claim not found"
MsgListingNotFound == "Listing not found"
MsgIdempotencyCollision == "Idempotency key collision with an existing listing"
MsgGrowersOnly == "Forbidden: This feature is only available to growers"
MsgTypeNotSet == "Forbidden: User type not set. Please complete onboarding."
\* format!("Forbidden: This feature requires user type {required:?}")
RequiresUserTypeMessage(required) ==
    "Forbidden: This feature requires user type " \o required
MsgQuantityTotal == "quantityTotal must be greater than 0"
MsgQuantityClaimed == "quantityClaimed must be greater than 0"
MsgRequestNotFound == "Request not found"
MsgRequestNotOwned == "Forbidden: requestId must belong to the claimer"
MsgRequestClosed == "requestId references a closed request"
MsgRequestCrop == "requestId crop must match listing crop"
MsgListingFilterForbidden == "Forbidden: You are not permitted to access claims for this listing"
MsgRequestFilterForbidden == "Forbidden: You are not permitted to access claims for this request"

\* The messages of this model that contain the text "Forbidden:".
ForbiddenMessages == {MsgNotParticipant, MsgOwnerConfirm, MsgOwnerNoShow,
                      MsgGrowersOnly, MsgTypeNotSet,
                      RequiresUserTypeMessage("Grower"),
                      RequiresUserTypeMessage("Gatherer"),
                      MsgRequestNotOwned,
                      MsgListingFilterForbidden, MsgRequestFilterForbidden}
\* The messages of this model that contain one of the 400 fragments.
ValidationMessages == {MsgQuantityTotal}

\* router.rs map_api_error_to_response: the status is chosen by substring
\* tests on the message.  None of the 400 fragments ("Invalid status",
\* "quantityTotal", ...) nor the 401 fragment occurs in a message of the
\* claim handlers; "Forbidden:" gives 403; everything else is 500.
map_api_error_to_response(message) ==
    IF message \in ValidationMessages
    THEN [code |-> 400, error |-> message]
    ELSE IF message \in ForbiddenMessages
    THEN [code |-> 403, error |-> message]
    ELSE [code |-> 500, error |-> message]

\* handlers' error_response(status, message): an Ok(response), not mapped.
error_response(status, message) == [code |-> status, error |-> message]
json_response(status) == [code |-> status, error |-> "none"]

\* ------------------------------------------------------------------ auth.rs
\* AuthContext.user_type of a caller: x has not completed onboarding.
user_type(user_id) ==
    IF user_id \in AllGrowers THEN Some("Grower")
    ELSE IF user_id \in AllGatherers THEN Some("Gatherer")
    ELSE None

require_grower(user_id) ==
    IF user_type(user_id) = Some("Grower") THEN [ok |-> TRUE, err |-> "none"]
    ELSE IF user_type(user_id) = Some("Gatherer")
         THEN [ok |-> FALSE, err |-> MsgGrowersOnly]
         ELSE [ok |-> FALSE, err |-> MsgTypeNotSet]

require_user_type(user_id, required) ==
    IF user_type(user_id) = Some(required) THEN [ok |-> TRUE, err |-> "none"]
    ELSE IF ~IsNull(user_type(user_id))
         THEN [ok |-> FALSE, err |-> RequiresUserTypeMessage(required)]
         ELSE [ok |-> FALSE, err |-> MsgTypeNotSet]

\* ------------------------------------------------------------------ claim.rs
\* Mutant: the listing owner is tested first.
determine_actor_role_owner_first(actor_user_id, claimer_id, listing_owner_id) ==
    IF actor_user_id = listing_owner_id
    THEN [ok |-> TRUE, role |-> "ListingOwner", err |-> "none"]
    ELSE IF actor_user_id = claimer_id
         THEN [ok |-> TRUE, role |-> "Claimer", err |-> "none"]
         ELSE [ok |-> FALSE, role |-> "none", err |-> MsgNotParticipant]

\* Mutant: the final participant test is missing, the owner role is the default.
determine_actor_role_default_owner(actor_user_id, claimer_id, listing_owner_id) ==
    IF actor_user_id = claimer_id THEN [ok |-> TRUE, role |-> "Claimer", err |-> "none"]
    ELSE [ok |-> TRUE, role |-> "ListingOwner", err |-> "none"]

\* determine_actor_role: the claimer is tested first.
determine_actor_role(actor_user_id, claimer_id, listing_owner_id) ==
    IF actor_user_id = claimer_id THEN [ok |-> TRUE, role |-> "Claimer", err |-> "none"]
    ELSE IF actor_user_id = listing_owner_id
         THEN [ok |-> TRUE, role |-> "ListingOwner", err |-> "none"]
         ELSE [ok |-> FALSE, role |-> "none", err |-> MsgNotParticipant]

Decision(adj, conf, comp, canc) ==
    [ok |-> TRUE, err |-> "none", quantity_adjustment |-> adj,
     stamp_confirmed_at |-> conf, stamp_completed_at |-> comp,
     stamp_cancelled_at |-> canc]

Rejected(message) ==
    [ok |-> FALSE, err |-> message, quantity_adjustment |-> "None",
     stamp_confirmed_at |-> FALSE, stamp_completed_at |-> FALSE,
     stamp_cancelled_at |-> FALSE]

\* Mutant: the wildcard arm accepts instead of rejecting.
evaluate_transition_wildcard_ok(current, target, actor_role) ==
    IF current = "pending" /\ target = "confirmed"
    THEN IF actor_role # "ListingOwner" THEN Rejected(MsgOwnerConfirm)
         ELSE Decision("Decrement", TRUE, FALSE, FALSE)
    ELSE IF current = "pending" /\ target = "cancelled"
         THEN Decision("None", FALSE, FALSE, TRUE)
    ELSE IF current = "confirmed" /\ target = "completed"
         THEN Decision("None", FALSE, TRUE, FALSE)
    ELSE IF current = "confirmed" /\ target = "cancelled"
         THEN Decision("Increment", FALSE, FALSE, TRUE)
    ELSE IF current = "confirmed" /\ target = "no_show"
         THEN IF actor_role # "ListingOwner" THEN Rejected(MsgOwnerNoShow)
              ELSE Decision("Increment", FALSE, FALSE, TRUE)
    ELSE Decision("None", FALSE, FALSE, FALSE)

\* Mutant: the no_show arm stamps nothing.
evaluate_transition_no_show_unstamped(current, target, actor_role) ==
    IF current = target THEN Decision("None", FALSE, FALSE, FALSE)
    ELSE IF current = "pending" /\ target = "confirmed"
         THEN IF actor_role # "ListingOwner" THEN Rejected(MsgOwnerConfirm)
              ELSE Decision("Decrement", TRUE, FALSE, FALSE)
    ELSE IF current = "pending" /\ target = "cancelled"
         THEN Decision("None", FALSE, FALSE, TRUE)
    ELSE IF current = "confirmed" /\ target = "completed"
         THEN Decision("None", FALSE, TRUE, FALSE)
    ELSE IF current = "confirmed" /\ target = "cancelled"
         THEN Decision("Increment", FALSE, FALSE, TRUE)
    ELSE IF current = "confirmed" /\ target = "no_show"
         THEN IF actor_role # "ListingOwner" THEN Rejected(MsgOwnerNoShow)
              ELSE Decision("Increment", FALSE, FALSE, FALSE)
    ELSE Rejected(InvalidTransitionMessage(current, target))

\* Mutant: the role tests of the two owner-only arms are missing.
evaluate_transition_no_role_test(current, target, actor_role) ==
    IF current = target THEN Decision("None", FALSE, FALSE, FALSE)
    ELSE IF current = "pending" /\ target = "confirmed"
         THEN Decision("Decrement", TRUE, FALSE, FALSE)
    ELSE IF current = "pending" /\ target = "cancelled"
         THEN Decision("None", FALSE, FALSE, TRUE)
    ELSE IF current = "confirmed" /\ target = "completed"
         THEN Decision("None", FALSE, TRUE, FALSE)
    ELSE IF current = "confirmed" /\ target \in {"cancelled", "no_show"}
         THEN Decision("Increment", FALSE, FALSE, TRUE)
    ELSE Rejected(InvalidTransitionMessage(current, target))

evaluate_transition(current, target, actor_role) ==
    IF current = target THEN Decision("None", FALSE, FALSE, FALSE)
    ELSE IF current = "pending" /\ target = "confirmed"
         THEN IF actor_role # "ListingOwner" THEN Rejected(MsgOwnerConfirm)
              ELSE Decision("Decrement", TRUE, FALSE, FALSE)
    ELSE IF current = "pending" /\ target = "cancelled"
         THEN Decision("None", FALSE, FALSE, TRUE)
    ELSE IF current = "confirmed" /\ target = "completed"
         THEN Decision("None", FALSE, TRUE, FALSE)
    ELSE IF current = "confirmed" /\ target = "cancelled"
         THEN Decision("Increment", FALSE, FALSE, TRUE)
    ELSE IF current = "confirmed" /\ target = "no_show"
         THEN IF actor_role # "ListingOwner" THEN Rejected(MsgOwnerNoShow)
              ELSE Decision("Increment", FALSE, FALSE, TRUE)
    ELSE Rejected(InvalidTransitionMessage(current, target))

\* Mutant: the decrement UPDATE without its quantity guard.
DecrementMatches_unguarded(l, q) == ~l.deleted

\* The guarded decrement UPDATE: the row it leaves, and whether it matched.
DecrementMatches(l, q) ==
    /\ ~l.deleted
    /\ (IsNull(l.quantity_remaining) \/ Unwrap(l.quantity_remaining) >= q)

\* Mutant: the decrement UPDATE sets the status to claimed whatever is left.
DecrementRow_always_claimed(l, q) ==
    [l EXCEPT
       !.quantity_remaining =
           IF IsNull(l.quantity_remaining) THEN None
           ELSE Some(Unwrap(l.quantity_remaining) - q),
       !.status = "claimed"]

DecrementRow(l, q) ==
    [l EXCEPT
       !.quantity_remaining =
           IF IsNull(l.quantity_remaining) THEN None
           ELSE Some(Unwrap(l.quantity_remaining) - q),
       !.status =
           IF ~IsNull(l.quantity_remaining) /\ Unwrap(l.quantity_remaining) - q <= 0
           THEN "claimed" ELSE l.status]

\* Mutant: the increment UPDATE restores the status but not the quantity.
IncrementRow_status_only(l, q) ==
    IF l.deleted THEN l
    ELSE [l EXCEPT !.status = IF l.status = "claimed" THEN "active" ELSE l.status]

\* The increment UPDATE (no guard but deleted_at is null).
IncrementRow(l, q) ==
    IF l.deleted THEN l
    ELSE [l EXCEPT
            !.quantity_remaining =
                IF IsNull(l.quantity_remaining) THEN None
                ELSE Some(Unwrap(l.quantity_remaining) + q),
            !.status = IF l.status = "claimed" THEN "active" ELSE l.status]

\* adjust_listing_quantity_if_needed on listing row l.
adjust_listing_quantity_if_needed(l, quantity_claimed, adjustment) ==
    IF adjustment = "None" THEN [ok |-> TRUE, err |-> "none", row |-> l]
    ELSE IF adjustment = "Decrement"
         THEN IF DecrementMatches(l, quantity_claimed)
              THEN [ok |-> TRUE, err |-> "none", row |-> DecrementRow(l, quantity_claimed)]
              ELSE [ok |-> FALSE, err |-> MsgInsufficient, row |-> l]
         ELSE [ok |-> TRUE, err |-> "none", row |-> IncrementRow(l, quantity_claimed)]

Coalesce(a, b) == IF IsNull(a) THEN b ELSE a

\* The UPDATE claims statement of transition_claim; ts is now(), the
\* transaction's start time.
UpdateClaimRow(c, target_status, notes, decision, ts) ==
    [c EXCEPT
       !.status = target_status,
       !.notes = Coalesce(notes, c.notes),
       !.confirmed_at = IF decision.stamp_confirmed_at
                        THEN Coalesce(c.confirmed_at, Some(ts)) ELSE c.confirmed_at,
       !.completed_at = IF decision.stamp_completed_at
                        THEN Coalesce(c.completed_at, Some(ts)) ELSE c.completed_at,
       !.cancelled_at = IF decision.stamp_cancelled_at
                        THEN Coalesce(c.cancelled_at, Some(ts)) ELSE c.cancelled_at]

\* Whether the locking SELECT of transition_claim returns a row.
ClaimContextFound(ls, cs, id) ==
    /\ id \in DOMAIN cs
    /\ cs[id].listing_id \in DOMAIN ls
    /\ ~ls[cs[id].listing_id].deleted

\* transition_claim from its locking SELECT to its response, on tables ls, cs:
\* the tables it commits (unchanged on every error: the transaction is dropped)
\* and the response the router returns.
TransitionOutcome(ls, cs, actor, id, target, notes, ts) ==
    IF ~ClaimContextFound(ls, cs, id)
    THEN [listings |-> ls, claims |-> cs, committed |-> FALSE,
          response |-> error_response(404, MsgClaimNotFound)]
    ELSE
      LET c == cs[id]
          lid == c.listing_id
          l == ls[lid]
          role == determine_actor_role(actor, c.claimer_id, l.user_id)
      IN IF ~role.ok
         THEN [listings |-> ls, claims |-> cs, committed |-> FALSE,
               response |-> map_api_error_to_response(role.err)]
         ELSE
           LET decision == evaluate_transition(c.status, target, role.role)
           IN IF ~decision.ok
              THEN [listings |-> ls, claims |-> cs, committed |-> FALSE,
                    response |-> map_api_error_to_response(decision.err)]
              ELSE
                LET adj == adjust_listing_quantity_if_needed(
                               l, c.quantity_claimed, decision.quantity_adjustment)
                IN IF ~adj.ok
                   THEN [listings |-> ls, claims |-> cs, committed |-> FALSE,
                         response |-> map_api_error_to_response(adj.err)]
                   ELSE [listings |-> [ls EXCEPT ![lid] = adj.row],
                         claims |-> [cs EXCEPT ![id] =
                                        UpdateClaimRow(c, target, notes, decision, ts)],
                         committed |-> TRUE,
                         response |-> json_response(200)]


\* Mutant: the closed-request test is missing.
validate_request_linkage_allows_closed(rs, request_id, claimer_id, listing_crop_id) ==
    IF request_id \notin DOMAIN rs \/ rs[request_id].deleted
    THEN [ok |-> FALSE, err |-> MsgRequestNotFound]
    ELSE IF rs[request_id].user_id # claimer_id
    THEN [ok |-> FALSE, err |-> MsgRequestNotOwned]
    ELSE IF rs[request_id].crop_id # listing_crop_id
    THEN [ok |-> FALSE, err |-> MsgRequestCrop]
    ELSE [ok |-> TRUE, err |-> "none"]

\* validate_request_linkage against the requests table rs.
validate_request_linkage(rs, request_id, claimer_id, listing_crop_id) ==
    IF request_id \notin DOMAIN rs \/ rs[request_id].deleted
    THEN [ok |-> FALSE, err |-> MsgRequestNotFound]
    ELSE IF rs[request_id].user_id # claimer_id
    THEN [ok |-> FALSE, err |-> MsgRequestNotOwned]
    ELSE IF rs[request_id].status = "closed"
    THEN [ok |-> FALSE, err |-> MsgRequestClosed]
    ELSE IF rs[request_id].crop_id # listing_crop_id
    THEN [ok |-> FALSE, err |-> MsgRequestCrop]
    ELSE [ok |-> TRUE, err |-> "none"]

\* The row of the INSERT of create_claim; claimed_at defaults to now().
InsertClaimRow(listing_id, request_id, claimer_id, quantity_claimed, notes, ts) ==
    [listing_id |-> listing_id, request_id |-> request_id,
     claimer_id |-> claimer_id, quantity_claimed |-> quantity_claimed,
     status |-> "pending", notes |-> notes, claimed_at |-> ts,
     confirmed_at |-> None, completed_at |-> None, cancelled_at |-> None]

CreateClaimRejected(ls, cs, response) ==
    [listings |-> ls, claims |-> cs, committed |-> FALSE, response |-> response]

\* Mutant: the reservation is taken from the inventory at creation.
CreateClaimCommit_reserves(ls, cs, claimer_id, listing_id, request_id, quantity_claimed, notes, ts) ==
    LET id == Cardinality(DOMAIN cs) + 1
    IN [listings |-> [ls EXCEPT ![listing_id] = DecrementRow(@, quantity_claimed)],
        claims |-> [i \in DOMAIN cs \cup {id} |->
                       IF i = id
                       THEN InsertClaimRow(listing_id, request_id, claimer_id,
                                           quantity_claimed, notes, ts)
                       ELSE cs[i]],
        committed |-> TRUE,
        response |-> json_response(201)]

\* The INSERT and COMMIT of create_claim: the listing row is only locked.
CreateClaimCommit(ls, cs, claimer_id, listing_id, request_id, quantity_claimed, notes, ts) ==
    LET id == Cardinality(DOMAIN cs) + 1
    IN [listings |-> ls,
        claims |-> [i \in DOMAIN cs \cup {id} |->
                       IF i = id
                       THEN InsertClaimRow(listing_id, request_id, claimer_id,
                                           quantity_claimed, notes, ts)
                       ELSE cs[i]],
        committed |-> TRUE,
        response |-> json_response(201)]

\* create_claim, the whole handler, on tables ls, cs, rs; ts is now().  The
\* tables it commits (unchanged on every rejection) and its response.
CreateClaimOutcome(ls, cs, rs, claimer_id, listing_id, request_id, quantity_claimed, notes, ts) ==
    IF ~require_user_type(claimer_id, "Gatherer").ok
    THEN CreateClaimRejected(ls, cs, map_api_error_to_response(
                                 require_user_type(claimer_id, "Gatherer").err))
    ELSE IF quantity_claimed <= 0
    THEN CreateClaimRejected(ls, cs, map_api_error_to_response(MsgQuantityClaimed))
    ELSE IF listing_id \notin DOMAIN ls \/ ls[listing_id].deleted
    THEN CreateClaimRejected(ls, cs, error_response(404, MsgListingNotFound))
    ELSE
      LET l == ls[listing_id]
          linkage == IF IsNull(request_id) THEN [ok |-> TRUE, err |-> "none"]
                     ELSE validate_request_linkage(rs, Unwrap(request_id),
                                                   claimer_id, l.crop_id)
      IN
      IF l.status \notin CLAIMABLE_LISTING_STATUSES
      THEN CreateClaimRejected(ls, cs, map_api_error_to_response(MsgNotClaimable))
      ELSE IF ~IsNull(l.quantity_remaining)
              /\ Unwrap(l.quantity_remaining) < quantity_claimed
      THEN CreateClaimRejected(ls, cs, error_response(409, MsgInsufficient))
      ELSE IF ~linkage.ok
      THEN CreateClaimRejected(ls, cs, map_api_error_to_response(linkage.err))
      ELSE CreateClaimCommit(ls, cs, claimer_id, listing_id, request_id,
                             quantity_claimed, notes, ts)

\* ------------------------------------------------------------------ listing.rs
\* normalize_payload: the status of the payload, "active" when absent.
normalize_payload(status) == IF IsNull(status) THEN "active" ELSE Unwrap(status)

\* Mutant: the new total replaces quantity_remaining.
Least_new_total(a, b) == b

\* SQL least(a, b).
Least(a, b) == IF a <= b THEN a ELSE b

\* UPDATE_LISTING_SQL on row l: the columns of this model it sets.
UpdateListingRow(l, crop_id, quantity_total, status) ==
    [l EXCEPT
       !.crop_id = crop_id,
       !.quantity_total = quantity_total,
       !.quantity_remaining =
           Some(Least(Unwrap(Coalesce(l.quantity_remaining, Some(quantity_total))),
                      quantity_total)),
       !.status = status]

\* The row of the INSERT of create_listing: quantity_remaining = quantity_total.
InsertListingRow(user_id, crop_id, quantity_total, status) ==
    [user_id |-> user_id, crop_id |-> crop_id, quantity_total |-> quantity_total,
     quantity_remaining |-> Some(quantity_total), status |-> status,
     deleted |-> FALSE]

\* The status values listing payloads carry in this model (absent, or one of
\* ALLOWED_LISTING_STATUS).
PayloadListingStatus == {"claimed", "expired"}
OptListingStatus == {None} \cup {Some(s) : s \in PayloadListingStatus}

\* derive_deterministic_listing_id: 16 bytes of SHA-256(user_id ":" key) with
\* the version and variant bits forced.  A many-to-one function of the pair;
\* with the two ids of this model, (g, k1) and (h, k2) collide on l1 and
\* (g, k2) and (h, k1) on l2.
derive_deterministic_listing_id(user_id, idempotency_key) ==
    IF (user_id = "g") = (idempotency_key = "k1") THEN "l1" ELSE "l2"

\* row_to_write_response: the fields of this model in the response body.
row_to_write_response(id, row) ==
    [id |-> id, user_id |-> row.user_id, crop_id |-> row.crop_id,
     quantity_total |-> row.quantity_total,
     quantity_remaining |-> row.quantity_remaining, status |-> row.status]

ListingRejected(ls, response) ==
    [listings |-> ls, response |-> response, body |-> None, event |-> "none"]

\* Mutant: the replay select does not test the owner.
ReplayRowVisible_any_owner(ls, listing_id, user_id) == ~ls[listing_id].deleted

\* The select of create_listing after a do-nothing conflict: the existing row,
\* if it is the caller's and not soft-deleted.
ReplayRowVisible(ls, listing_id, user_id) ==
    ls[listing_id].user_id = user_id /\ ~ls[listing_id].deleted

\* create_listing, the whole handler, on table ls: the table it leaves, its
\* response and body, and the event it emits.  new_v4 is the id drawn when
\* the request carries no Idempotency-Key.
CreateListingOutcome(ls, user_id, idempotency_key, new_v4, crop_id, quantity_total, status) ==
    IF ~require_grower(user_id).ok
    THEN ListingRejected(ls, map_api_error_to_response(require_grower(user_id).err))
    ELSE IF quantity_total <= 0
    THEN ListingRejected(ls, map_api_error_to_response(MsgQuantityTotal))
    ELSE
      LET listing_id == IF IsNull(idempotency_key) THEN new_v4
                        ELSE derive_deterministic_listing_id(
                                 user_id, Unwrap(idempotency_key))
          row == InsertListingRow(user_id, crop_id, quantity_total,
                                  normalize_payload(status))
      IN IF listing_id \notin DOMAIN ls
         THEN [listings |-> [i \in DOMAIN ls \cup {listing_id} |->
                                IF i = listing_id THEN row ELSE ls[i]],
               response |-> json_response(201),
               body |-> Some(row_to_write_response(listing_id, row)),
               event |-> "listing.created"]
         ELSE IF ReplayRowVisible(ls, listing_id, user_id)
         THEN [listings |-> ls,
               response |-> json_response(201),
               body |-> Some(row_to_write_response(listing_id, ls[listing_id])),
               event |-> "none"]
         ELSE ListingRejected(ls, error_response(409, MsgIdempotencyCollision))

\* Mutant: the UPDATE does not test the owner.
UpdateRowMatches_any_owner(ls, id, user_id) == id \in DOMAIN ls /\ ~ls[id].deleted

\* The WHERE clause of UPDATE_LISTING_SQL.
UpdateRowMatches(ls, id, user_id) ==
    id \in DOMAIN ls /\ ls[id].user_id = user_id /\ ~ls[id].deleted

\* update_listing, the whole handler, on table ls.
UpdateListingOutcome(ls, user_id, id, crop_id, quantity_total, status) ==
    IF ~require_grower(user_id).ok
    THEN ListingRejected(ls, map_api_error_to_response(require_grower(user_id).err))
    ELSE IF quantity_total <= 0
    THEN ListingRejected(ls, map_api_error_to_response(MsgQuantityTotal))
    ELSE IF UpdateRowMatches(ls, id, user_id)
    THEN LET row == UpdateListingRow(ls[id], crop_id, quantity_total,
                                     normalize_payload(status))
         IN [listings |-> [ls EXCEPT ![id] = row],
             response |-> json_response(200),
             body |-> Some(row_to_write_response(id, row)),
             event |-> "listing.updated"]
    ELSE ListingRejected(ls, error_response(404, MsgListingNotFound))

\* ------------------------------------------------------------------ request.rs
\* normalize_payload of request.rs: the status of the payload, "open" when absent.
normalize_request_status(status) == IF IsNull(status) THEN "open" ELSE Unwrap(status)

OptRequestStatus == {None} \cup {Some(s) : s \in ALLOWED_REQUEST_STATUS}

InsertRequestRow(user_id, crop_id, status) ==
    [user_id |-> user_id, crop_id |-> crop_id, status |-> status, deleted |-> FALSE]

\* The UPDATE requests statement of update_request on row r.
UpdateRequestRow(r, crop_id, status) ==
    [r EXCEPT !.crop_id = crop_id, !.status = status]

\* ------------------------------------------------------------------ state
VARIABLES
    listings,   \* surplus_listings: listing id -> row
    claims,     \* claims: claim id -> row
    requests,   \* requests: request id -> row
    now,        \* the store clock
    response,   \* the response of the last handler that ran as a whole
    tx,         \* per connection: the open transaction and its row locks
    events,     \* the event bus: the entries it accepted
    log,        \* the error log: the messages written by error!
    signals,    \* derived_supply_signals: row key -> row
    checkpoint, \* the checkpoint file of the replay driver
    run,        \* the last run of an aggregation worker
    summaries   \* derived_signal_summaries: row key -> row

\* The event bus, the error log and the state of the aggregation pipeline.
pipeline == << events, log, signals, checkpoint, run, summaries >>

vars == << listings, claims, requests, now, response, tx, pipeline >>

\* No worker has run: no event, no log line, no derived signal, no checkpoint file.
IdleRun ==
    [worker |-> "none", result |-> "none", count |-> 0, event |-> << >>, started_at |-> 0, previous |-> << >>, mode |-> "none", env |-> << >>, dry_run |-> FALSE, from |-> << >>, to |-> 0, checkpoint_file |-> FALSE, bucket_start |-> 0, pending |-> {}, current |-> << >>, visited |-> {}, upserts |-> 0, keys |-> {}]

PipelineInit ==
    /\ events = {}
    /\ log = {}
    /\ signals = << >>
    /\ checkpoint = << >>
    /\ run = IdleRun
    /\ summaries = << >>

TxIds == {"t1", "t2"}
IdleTx == [pc |-> "idle", op |-> "none", claim |-> 0, listing |-> "none",
           start |-> 0, response |-> json_response(0)]

Init ==
    /\ listings = << >>
    /\ claims = << >>
    /\ requests = << >>
    /\ now = 0
    /\ response = json_response(0)
    /\ tx = [t \in TxIds |-> IdleTx]
    /\ PipelineInit

\* Row locks held by open transactions.
ClaimLocked(id) ==
    \E t \in TxIds : tx[t].pc \in {"claim_locked", "locked"} /\ tx[t].claim = id
ListingLocked(lid) ==
    \E t \in TxIds : tx[t].pc = "locked" /\ tx[t].listing = lid

\* ------------------------------------------------------------------ handlers
Tick ==
    /\ now < MaxClock
    /\ now' = now + 1
    /\ UNCHANGED << pipeline, listings, claims, requests, response, tx >>

create_listing(user_id, idempotency_key, new_v4, crop_id, quantity_total, status) ==
    /\ IsNull(idempotency_key) => new_v4 \notin DOMAIN listings
    /\ LET out == CreateListingOutcome(listings, user_id, idempotency_key, new_v4,
                                       crop_id, quantity_total, status)
       IN /\ listings' = out.listings
          /\ response' = out.response
    /\ UNCHANGED << pipeline, claims, requests, now, tx >>

update_listing(user_id, id, crop_id, quantity_total, status) ==
    /\ ~ListingLocked(id)
    /\ LET out == UpdateListingOutcome(listings, user_id, id, crop_id,
                                       quantity_total, status)
       IN /\ listings' = out.listings
          /\ response' = out.response
    /\ UNCHANGED << pipeline, claims, requests, now, tx >>

create_claim(claimer_id, listing_id, request_id, quantity_claimed, notes) ==
    /\ Cardinality(DOMAIN claims) + 1 \in ClaimIds
    /\ ~ListingLocked(listing_id)
    /\ LET out == CreateClaimOutcome(listings, claims, requests, claimer_id,
                                     listing_id, request_id, quantity_claimed,
                                     notes, now)
       IN /\ listings' = out.listings
          /\ claims' = out.claims
          /\ response' = out.response
    /\ UNCHANGED << pipeline, requests, now, tx >>

transition_claim(actor_user_id, id, target_status, notes) ==
    /\ ~ClaimLocked(id)
    /\ id \in DOMAIN claims => ~ListingLocked(claims[id].listing_id)
    /\ LET out == TransitionOutcome(listings, claims, actor_user_id, id,
                                    target_status, notes, now)
       IN /\ listings' = out.listings
          /\ claims' = out.claims
          /\ response' = out.response
    /\ UNCHANGED << pipeline, requests, now, tx >>

\* create_request: the id is generated by the store.
create_request(user_id, crop_id, status) ==
    /\ \E id \in RequestIds : id \notin DOMAIN requests
    /\ IF ~require_user_type(user_id, "Gatherer").ok
       THEN /\ response' = map_api_error_to_response(
                               require_user_type(user_id, "Gatherer").err)
            /\ UNCHANGED requests
       ELSE LET id == CHOOSE i \in RequestIds : i \notin DOMAIN requests
            IN /\ requests' = [i \in DOMAIN requests \cup {id} |->
                                  IF i = id
                                  THEN InsertRequestRow(user_id, crop_id,
                                           normalize_request_status(status))
                                  ELSE requests[i]]
               /\ response' = json_response(201)
    /\ UNCHANGED << pipeline, listings, claims, now, tx >>

update_request(user_id, id, crop_id, status) ==
    /\ IF ~require_user_type(user_id, "Gatherer").ok
       THEN /\ response' = map_api_error_to_response(
                               require_user_type(user_id, "Gatherer").err)
            /\ UNCHANGED requests
       ELSE IF id \in DOMAIN requests /\ requests[id].user_id = user_id
               /\ ~requests[id].deleted
       THEN /\ requests' = [requests EXCEPT ![id] =
                               UpdateRequestRow(@, crop_id,
                                                normalize_request_status(status))]
            /\ response' = json_response(200)
       ELSE /\ UNCHANGED requests
            /\ response' = error_response(404, MsgRequestNotFound)
    /\ UNCHANGED << pipeline, listings, claims, now, tx >>

\* Soft deletion (deleted_at := now()) of a listing or a request: done outside
\* the handlers of this model, which only ever test deleted_at is null.
soft_delete_listing(id) ==
    /\ id \in DOMAIN listings
    /\ ~listings[id].deleted
    /\ ~ListingLocked(id)
    /\ listings' = [listings EXCEPT ![id].deleted = TRUE]
    /\ UNCHANGED << pipeline, claims, requests, now, response, tx >>

soft_delete_request(id) ==
    /\ id \in DOMAIN requests
    /\ ~requests[id].deleted
    /\ requests' = [requests EXCEPT ![id].deleted = TRUE]
    /\ UNCHANGED << pipeline, listings, claims, now, response, tx >>

\* The handlers, each run as a whole, within one reading of the clock.
Next ==
    \/ \E u \in Growers, q \in 0..MaxTotal, s \in OptListingStatus :
          create_listing(u, Some("k1"), "l1", "c1", q, s)
    \/ \E u \in Growers, id \in ListingIds, q \in 0..MaxTotal, s \in OptListingStatus :
          update_listing(u, id, "c1", q, s)
    \/ \E u \in Gatherers, lid \in ListingIds, q \in 0..MaxQty, n \in OptNotes :
          create_claim(u, lid, None, q, n)
    \/ \E u \in Users, id \in ClaimIds, s \in ALLOWED_CLAIM_STATUSES, n \in OptNotes :
          transition_claim(u, id, s, n)

Spec == Init /\ [][Next]_vars

\* ------------------------------------------------------------------ store
\* The handlers with request linkage, a second grower and a second gatherer,
\* two crops and soft deletion: one listing (of grower g), one request, one
\* claim, no notes.
StoreTotals == 0..(MaxTotal - 1)
StoreUsers == AllGrowers \cup AllGatherers
OptRequestIds == {None} \cup {Some(r) : r \in RequestIds}
StoreListingStatus == {None, Some("expired")}
StoreRequestStatus == {None, Some("closed")}

StoreNext ==
    \/ \E c \in CropIds, q \in StoreTotals, s \in StoreListingStatus :
          create_listing("g", Some("k1"), "l1", c, q, s)
    \/ \E u \in AllGrowers, id \in ListingIds, c \in CropIds,
          q \in StoreTotals, s \in StoreListingStatus :
          update_listing(u, id, c, q, s)
    \/ \E u \in StoreUsers, lid \in ListingIds, r \in OptRequestIds,
          q \in 0..MaxQty :
          /\ claims = << >>
          /\ create_claim(u, lid, r, q, None)
    \/ \E u \in {"g", "a"}, id \in {1}, s \in {"confirmed", "cancelled"} :
          transition_claim(u, id, s, None)
    \/ \E u \in AllGatherers, c \in CropIds, s \in StoreRequestStatus :
          create_request(u, c, s)
    \/ \E u \in AllGatherers, id \in RequestIds, c \in CropIds,
          s \in StoreRequestStatus :
          update_request(u, id, c, s)
    \/ \E id \in ListingIds : soft_delete_listing(id)
    \/ \E id \in RequestIds : soft_delete_request(id)

SpecStore == Init /\ [][StoreNext]_vars

\* ------------------------------------------------------------------ transactions
\* transition_claim on connection t, split where it can wait: BEGIN, the two
\* row locks of SELECT ... FOR UPDATE OF c, l, then the rest up to COMMIT.
\* Payload fields are drawn at the step that first reads them.
tc_begin(t) ==
    /\ tx[t].pc = "idle"
    /\ tx' = [tx EXCEPT ![t] = [IdleTx EXCEPT !.pc = "begun", !.op = "transition",
                                              !.start = now]]
    /\ UNCHANGED << pipeline, listings, claims, requests, now, response >>

tc_lock_claim(t, id) ==
    /\ tx[t].pc = "begun"
    /\ tx[t].op = "transition"
    /\ IF ~ClaimContextFound(listings, claims, id)
       THEN tx' = [tx EXCEPT ![t] = [@ EXCEPT !.pc = "done", !.claim = id,
                       !.response = error_response(404, MsgClaimNotFound)]]
       ELSE /\ ~ClaimLocked(id)
            /\ tx' = [tx EXCEPT ![t] = [@ EXCEPT !.pc = "claim_locked", !.claim = id,
                                                 !.listing = claims[id].listing_id]]
    /\ UNCHANGED << pipeline, listings, claims, requests, now, response >>

tc_lock_listing(t) ==
    /\ tx[t].pc = "claim_locked"
    /\ ~ListingLocked(tx[t].listing)
    /\ tx' = [tx EXCEPT ![t] = [@ EXCEPT !.pc = "locked"]]
    /\ UNCHANGED << pipeline, listings, claims, requests, now, response >>

\* Role, decision, inventory UPDATE, claim UPDATE and COMMIT (or the drop of
\* the transaction on an error); now() is the transaction's start.
tc_finish(t, actor_user_id, target_status, notes) ==
    /\ tx[t].pc = "locked"
    /\ tx[t].op = "transition"
    /\ LET out == TransitionOutcome(listings, claims, actor_user_id, tx[t].claim,
                                    target_status, notes, tx[t].start)
       IN /\ listings' = out.listings
          /\ claims' = out.claims
          /\ tx' = [tx EXCEPT ![t] = [@ EXCEPT !.pc = "done",
                                               !.response = out.response]]
    /\ UNCHANGED << pipeline, requests, now, response >>

\* The handler returns its response and the connection is free again.
tc_return(t) ==
    /\ tx[t].pc = "done"
    /\ response' = tx[t].response
    /\ tx' = [tx EXCEPT ![t] = IdleTx]
    /\ UNCHANGED << pipeline, listings, claims, requests, now >>

\* ------------------------------------------------------------------ ledger
RECURSIVE SumClaimed(_, _, _)
\* Sum of quantity_claimed over the claims in ids on listing lid whose
\* status is in statuses.
SumClaimed(ids, lid, statuses) ==
    IF ids = {} THEN 0
    ELSE LET id == CHOOSE i \in ids : TRUE
             c == claims[id]
         IN (IF c.listing_id = lid /\ c.status \in statuses
             THEN c.quantity_claimed ELSE 0)
            + SumClaimed(ids \ {id}, lid, statuses)

Participants(id) == {claims[id].claimer_id, listings[claims[id].listing_id].user_id}

\* A pending -> confirmed request by the listing owner on claim id.
OwnerConfirms(actor, id, target) ==
    /\ ClaimContextFound(listings, claims, id)
    /\ claims[id].status = "pending"
    /\ target = "confirmed"
    /\ actor = listings[claims[id].listing_id].user_id
    /\ actor # claims[id].claimer_id

\* C1: every listing whose quantity_remaining is non-null satisfies
\* 0 <= quantity_remaining <= quantity_total.
C1_QuantityWithinTotal ==
    \A lid \in DOMAIN listings :
        LET l == listings[lid] IN
        ~IsNull(l.quantity_remaining) =>
            /\ 0 <= Unwrap(l.quantity_remaining)
            /\ Unwrap(l.quantity_remaining) <= l.quantity_total

\* C3: in every committed state a listing has status claimed if and only if
\* its quantity_remaining is 0.
C3_ClaimedIffZero ==
    \A lid \in DOMAIN listings :
        (listings[lid].status = "claimed") <=> (listings[lid].quantity_remaining = Some(0))

\* C4: the sum of quantity_claimed over a listing's confirmed and completed
\* claims is at most its quantity_total.
C4_ConfirmedSumWithinTotal ==
    \A lid \in DOMAIN listings :
        SumClaimed(DOMAIN claims, lid, {"confirmed", "completed"})
            <= listings[lid].quantity_total

\* What transition_claim does when it runs in the current state.
Outcome(actor, id, target, notes) ==
    TransitionOutcome(listings, claims, actor, id, target, notes, now)

Rejects(out) == ~out.committed /\ out.listings = listings /\ out.claims = claims

\* C10: a pending -> confirmed transition whose guarded decrement matches no
\* row answers 409 with the insufficient-quantity message.
C10_InsufficientIs409 ==
    [][\A actor \in Users, id \in ClaimIds, n \in OptNotes :
          ( /\ OwnerConfirms(actor, id, "confirmed")
            /\ ~DecrementMatches(listings[claims[id].listing_id],
                                 claims[id].quantity_claimed)
            /\ transition_claim(actor, id, "confirmed", n) )
          => response' = [code |-> 409, error |-> MsgInsufficient]]_vars

\* ------------------------------------------------------------------ creation
\* What create_claim does when it runs in the current state.
CreateOutcome(claimer_id, listing_id, request_id, quantity_claimed, notes) ==
    CreateClaimOutcome(listings, claims, requests, claimer_id, listing_id,
                       request_id, quantity_claimed, notes, now)

NewClaimId == Cardinality(DOMAIN claims) + 1

InventoryEdges == {<<"pending", "confirmed">>, <<"confirmed", "cancelled">>,
                   <<"confirmed", "no_show">>}

\* C11: a successful create_claim leaves every listing row as it was and
\* inserts a pending claim with claimed_at set and confirmed_at, completed_at
\* and cancelled_at null; a transition changes a listing row only on
\* pending -> confirmed, confirmed -> cancelled and confirmed -> no_show.
C11_CreateLeavesInventory ==
    /\ \A u \in Gatherers, lid \in ListingIds, q \in 0..MaxQty, n \in OptNotes :
          LET out == CreateOutcome(u, lid, None, q, n)
          IN out.committed =>
               /\ out.listings = listings
               /\ out.response.code = 201
               /\ out.claims[NewClaimId].status = "pending"
               /\ out.claims[NewClaimId].claimed_at = now
               /\ IsNull(out.claims[NewClaimId].confirmed_at)
               /\ IsNull(out.claims[NewClaimId].completed_at)
               /\ IsNull(out.claims[NewClaimId].cancelled_at)
    /\ \A actor \in Users, id \in DOMAIN claims, target \in ALLOWED_CLAIM_STATUSES,
          n \in OptNotes :
          Outcome(actor, id, target, n).listings # listings
             => <<claims[id].status, target>> \in InventoryEdges

C11_Witness ==
    /\ response = json_response(201)
    /\ Cardinality(DOMAIN claims) = 2
    /\ claims[1].status = "confirmed"
    /\ claims[2].status = "pending"
    /\ \E lid \in DOMAIN listings :
          listings[lid].quantity_remaining
             = Some(listings[lid].quantity_total - claims[1].quantity_claimed)

\* The linkage rules for request r, claimer u and listing lid in the current
\* state: the request exists and is not soft-deleted, is the claimer's, has
\* the listing's crop and is not closed.
LinkageHolds(r, u, lid) ==
    /\ r \in DOMAIN requests
    /\ ~requests[r].deleted
    /\ requests[r].user_id = u
    /\ requests[r].crop_id = listings[lid].crop_id
    /\ requests[r].status # "closed"

ListingAccepts(lid, q) ==
    /\ lid \in DOMAIN listings
    /\ ~listings[lid].deleted
    /\ listings[lid].status \in {"active", "pending", "claimed"}
    /\ (IsNull(listings[lid].quantity_remaining)
          \/ Unwrap(listings[lid].quantity_remaining) >= q)

\* C12: create_claim by a gatherer inserts a claim if and only if the listing
\* exists, is not soft-deleted, has status active, pending or claimed and
\* quantity_remaining null or >= quantity_claimed, quantity_claimed > 0 and
\* the request linkage (if any) is valid; a rejected create_claim, by any
\* caller, inserts no row and changes none.
C12_CreateClaimIff ==
    \A u \in StoreUsers, lid \in AllListingIds, r \in OptRequestIds, q \in 0..MaxQty :
        LET out == CreateOutcome(u, lid, r, q, None)
        IN /\ u \in AllGatherers =>
                (out.committed <=>
                   ( /\ ListingAccepts(lid, q)
                     /\ q > 0
                     /\ IsNull(r) \/ LinkageHolds(Unwrap(r), u, lid) ))
           /\ out.committed =>
                /\ DOMAIN out.claims = DOMAIN claims \cup {NewClaimId}
                /\ \A id \in DOMAIN claims : out.claims[id] = claims[id]
           /\ ~out.committed => (out.claims = claims /\ out.listings = listings)

C12_Witness ==
    /\ response = json_response(201)
    /\ 1 \in DOMAIN claims
    /\ claims[1].status = "pending"
    /\ claims[1].request_id = Some("r1")
    /\ listings["l1"].status = "active"

LinkageMessages == {MsgRequestNotFound, MsgRequestNotOwned, MsgRequestClosed,
                    MsgRequestCrop}

\* C13: create_claim with a request_id is rejected and inserts no claim unless
\* the request exists and is not soft-deleted, its owner is the claimer, its
\* crop is the listing's crop and its status is not closed.
C13_LinkageRejected ==
    \A u \in StoreUsers, lid \in AllListingIds, r \in RequestIds, q \in 0..MaxQty :
        LET out == CreateOutcome(u, lid, Some(r), q, None)
        IN /\ (lid \notin DOMAIN listings \/ ~LinkageHolds(r, u, lid))
                => /\ ~out.committed
                   /\ out.claims = claims
                   /\ out.response.code # 201
           /\ ( /\ u \in AllGatherers
                /\ q > 0
                /\ ListingAccepts(lid, q)
                /\ ~LinkageHolds(r, u, lid) )
                => out.response.error \in LinkageMessages

C13_Witness ==
    /\ response.error = MsgRequestClosed
    /\ claims = << >>
    /\ "r1" \in DOMAIN requests
    /\ requests["r1"].status = "closed"
    /\ "l1" \in DOMAIN listings
    /\ requests["r1"].crop_id = listings["l1"].crop_id

\* C14: for every claim whose request_id is set, the request's owner is the
\* claim's claimer, the request's crop is the listing's crop and the request
\* is not closed, also after later update_request and update_listing.
C14_LinkageInvariant ==
    \A id \in DOMAIN claims :
        ~IsNull(claims[id].request_id) =>
            LET r == requests[Unwrap(claims[id].request_id)]
            IN /\ r.user_id = claims[id].claimer_id
               /\ r.crop_id = listings[claims[id].listing_id].crop_id
               /\ r.status # "closed"

\* ------------------------------------------------------------------ state machine
Edges == {<<"pending", "confirmed">>, <<"pending", "cancelled">>,
          <<"confirmed", "completed">>, <<"confirmed", "cancelled">>,
          <<"confirmed", "no_show">>}
OwnerEdges == {<<"pending", "confirmed">>, <<"confirmed", "no_show">>}
EitherEdges == Edges \ OwnerEdges
Terminal == {"completed", "cancelled", "no_show"}

OwnerOf(id) == listings[claims[id].listing_id].user_id

\* C5: a claim's status changes only along the five edges; a participant's
\* request for any other pair with target # current is rejected as an invalid
\* transition and changes nothing; a completed, cancelled or no_show claim
\* keeps its status.
C5_OnlyEdges ==
    /\ [][\A id \in DOMAIN claims :
              /\ id \in DOMAIN claims'
              /\ claims'[id].status # claims[id].status
                    => <<claims[id].status, claims'[id].status>> \in Edges
              /\ claims[id].status \in Terminal
                    => claims'[id].status = claims[id].status]_vars
    /\ [](\A id \in ClaimIds :
             ClaimContextFound(listings, claims, id) =>
               \A actor \in Participants(id),
                  target \in ALLOWED_CLAIM_STATUSES \ {claims[id].status},
                  n \in OptNotes :
                  <<claims[id].status, target>> \notin Edges =>
                    LET out == Outcome(actor, id, target, n)
                    IN /\ out.response
                            = [code |-> 500,
                               error |-> InvalidTransitionMessage(claims[id].status,
                                                                  target)]
                       /\ Rejects(out))

C5_Witness ==
    \E id \in DOMAIN claims :
        /\ claims[id].status = "no_show"
        /\ response.error = InvalidTransitionMessage("no_show", "confirmed")

\* C6: pending -> confirmed and confirmed -> no_show succeed only for the
\* listing owner and the claimer attempting either gets 403 Forbidden; the
\* three other edges succeed for either participant.
C6_RoleScopedEdges ==
    \A actor \in Users, id \in ClaimIds, target \in ALLOWED_CLAIM_STATUSES,
       n \in OptNotes :
        ClaimContextFound(listings, claims, id) =>
          LET out == Outcome(actor, id, target, n)
              edge == <<claims[id].status, target>>
          IN /\ (edge \in OwnerEdges /\ out.committed)
                   => (actor = OwnerOf(id) /\ actor # claims[id].claimer_id)
             /\ (edge \in OwnerEdges /\ actor = claims[id].claimer_id)
                   => /\ out.response.code = 403
                      /\ out.response.error \in {MsgOwnerConfirm, MsgOwnerNoShow}
                      /\ Rejects(out)
             /\ (edge \in EitherEdges /\ actor \in Participants(id))
                   => /\ out.response.code = 200
                      /\ out.committed
                      /\ out.claims[id].status = target

C6_Witness ==
    /\ response.error = MsgOwnerConfirm
    /\ \E id \in DOMAIN claims : claims[id].status = "no_show"
    /\ \E id \in DOMAIN claims : claims[id].status = "pending"

\* C7: transition_claim by an actor who is neither the claimer nor the
\* listing owner answers 403 Forbidden for every (current, target) pair and
\* leaves every claim row and every listing row as it was.
C7_NonParticipantForbidden ==
    \A actor \in Users, id \in ClaimIds, target \in ALLOWED_CLAIM_STATUSES,
       n \in OptNotes :
        ( /\ ClaimContextFound(listings, claims, id)
          /\ actor \notin Participants(id) )
        => /\ Outcome(actor, id, target, n).response
                 = [code |-> 403, error |-> MsgNotParticipant]
           /\ Rejects(Outcome(actor, id, target, n))

C7_Witness ==
    /\ response.error = MsgNotParticipant
    /\ \E id \in DOMAIN claims : claims[id].status = "confirmed"
    /\ \E id \in DOMAIN claims : claims[id].status \in Terminal

\* C8: re-issuing the transition to the claim's current terminal status, by a
\* participant, with or without notes, answers 200 and changes no field of
\* the claim and no listing.
C8_TerminalReissueNoOp ==
    [][\A actor \in Users, id \in ClaimIds, target \in Terminal, n \in OptNotes :
          ( /\ ClaimContextFound(listings, claims, id)
            /\ actor \in Participants(id)
            /\ claims[id].status = target
            /\ transition_claim(actor, id, target, n) )
          => /\ response'.code = 200
             /\ claims' = claims
             /\ listings' = listings]_vars

\* ------------------------------------------------------------------ confirm race
\* Two connections, each confirming one of two pending claims on the same
\* listing as its owner, once.
RaceClaim == [t \in TxIds |-> IF t = "t1" THEN 1 ELSE 2]

PendingClaim(lid, claimer_id, q) == InsertClaimRow(lid, None, claimer_id, q, None, 0)

RaceInit ==
    \E Q \in 1..MaxTotal, q1 \in 1..MaxQty, q2 \in 1..MaxQty :
        /\ q1 <= Q /\ q2 <= Q
        /\ listings = [lid \in {"l1"} |-> InsertListingRow("g", "c1", Q, "active")]
        /\ claims = [id \in {1, 2} |->
                        PendingClaim("l1", "a", IF id = 1 THEN q1 ELSE q2)]
        /\ requests = << >>
        /\ now = 0
        /\ response = json_response(0)
        /\ tx = [t \in TxIds |-> IdleTx]
        /\ PipelineInit

RaceNext ==
    \/ Tick
    \/ \E t \in TxIds : tc_begin(t)
    \/ \E t \in TxIds : tc_lock_claim(t, RaceClaim[t])
    \/ \E t \in TxIds : tc_lock_listing(t)
    \/ \E t \in TxIds, n \in OptNotes : tc_finish(t, "g", "confirmed", n)

SpecConfirmRace == RaceInit /\ [][RaceNext]_vars

RaceWon(w, lo) ==
    /\ tx[w].response.code = 200
    /\ claims[RaceClaim[w]].status = "confirmed"
    /\ listings["l1"].quantity_remaining
          = Some(listings["l1"].quantity_total - claims[RaceClaim[w]].quantity_claimed)
    /\ tx[lo].response.error = MsgInsufficient
    /\ claims[RaceClaim[lo]].status = "pending"

RaceOver == \A t \in TxIds : tx[t].pc = "done"
RaceContended ==
    claims[1].quantity_claimed + claims[2].quantity_claimed
        > listings["l1"].quantity_total

\* C2: of two concurrent owner confirms of pending claims q1, q2 <= Q with
\* q1 + q2 > Q on a listing with quantity_remaining = Q, exactly one commits
\* (claim confirmed, quantity_remaining = Q - qi) and the other aborts with
\* the insufficient-quantity error, its claim still pending; committed
\* quantity_remaining is never negative.
C2_ConfirmRace ==
    /\ Unwrap(listings["l1"].quantity_remaining) >= 0
    /\ (RaceOver /\ RaceContended) => (RaceWon("t1", "t2") \/ RaceWon("t2", "t1"))

C2_Witness == RaceOver /\ RaceContended /\ RaceWon("t2", "t1")

\* ------------------------------------------------------------------ reversal
\* A listing of total T with one pending claim (id 1) and possibly one
\* completed claim (id 2), then claim transitions only.
ReversalInit ==
    \E T \in 1..MaxTotal, q1 \in 1..MaxQty, q2 \in 0..MaxQty :
        /\ q1 <= T /\ q2 <= T
        /\ listings = [lid \in {"l1"} |->
               [InsertListingRow("g", "c1", T, IF T = q2 THEN "claimed" ELSE "active")
                   EXCEPT !.quantity_remaining = Some(T - q2)]]
        /\ claims = [id \in (IF q2 = 0 THEN {1} ELSE {1, 2}) |->
               IF id = 1 THEN PendingClaim("l1", "a", q1)
               ELSE [PendingClaim("l1", "a", q2) EXCEPT
                        !.status = "completed", !.confirmed_at = Some(0),
                        !.completed_at = Some(0)]]
        /\ requests = << >>
        /\ now = 0
        /\ response = json_response(0)
        /\ tx = [t \in TxIds |-> IdleTx]
        /\ PipelineInit

ReversalNext ==
    \E u \in Users, id \in ClaimIds, s \in ALLOWED_CLAIM_STATUSES, n \in OptNotes :
        transition_claim(u, id, s, n)

SpecReversal == ReversalInit /\ [][ReversalNext]_vars

\* quantity_remaining before claim 1 was confirmed: the total less what the
\* completed claim holds.
PreConfirmRemaining ==
    listings["l1"].quantity_total
        - SumClaimed(DOMAIN claims \ {1}, "l1", {"completed"})

\* C9: pending -> confirmed followed by confirmed -> cancelled, with nothing
\* else touching the listing, leaves quantity_remaining at its value before
\* the confirm.
C9_ConfirmCancelRestores ==
    ( /\ claims[1].status = "cancelled"
      /\ ~IsNull(claims[1].confirmed_at) )
    => listings["l1"].quantity_remaining = Some(PreConfirmRemaining)

C9_Witness ==
    /\ claims[1].status = "cancelled"
    /\ ~IsNull(claims[1].confirmed_at)
    /\ 2 \in DOMAIN claims

\* ------------------------------------------------------------------ timestamps
\* One pending claim of gatherer a on a listing of grower g, created at clock
\* reading 0; then transitions by either participant on two connections,
\* any number of times, while the clock advances.
TransitionRaceInit ==
    \E Q \in 1..MaxTotal, q \in 1..MaxQty :
        /\ q <= Q
        /\ listings = [lid \in {"l1"} |-> InsertListingRow("g", "c1", Q, "active")]
        /\ claims = [id \in {1} |-> PendingClaim("l1", "a", q)]
        /\ requests = << >>
        /\ now = 0
        /\ response = json_response(0)
        /\ tx = [t \in TxIds |-> IdleTx]
        /\ PipelineInit

TransitionRaceNext ==
    \/ Tick
    \/ \E t \in TxIds : tc_begin(t)
    \/ \E t \in TxIds : tc_lock_claim(t, 1)
    \/ \E t \in TxIds : tc_lock_listing(t)
    \/ \E t \in TxIds, u \in {"g", "a"}, target \in ALLOWED_CLAIM_STATUSES :
          tc_finish(t, u, target, None)
    \/ \E t \in TxIds : tc_return(t)

SpecTransitionRace == TransitionRaceInit /\ [][TransitionRaceNext]_vars

\* C15: a confirmed claim has confirmed_at set; a completed claim confirmed_at
\* and completed_at; a cancelled claim cancelled_at; a no_show claim
\* confirmed_at and cancelled_at.
C15_TimestampsMatchStatus ==
    \A id \in DOMAIN claims :
        LET c == claims[id]
        IN /\ c.status = "confirmed" => ~IsNull(c.confirmed_at)
           /\ c.status = "completed"
                 => (~IsNull(c.confirmed_at) /\ ~IsNull(c.completed_at))
           /\ c.status = "cancelled" => ~IsNull(c.cancelled_at)
           /\ c.status = "no_show"
                 => (~IsNull(c.confirmed_at) /\ ~IsNull(c.cancelled_at))

C15_Witness ==
    /\ claims[1].status = "no_show"
    /\ claims[1].confirmed_at = Some(0)
    /\ claims[1].cancelled_at = Some(1)

\* C16: confirmed_at, completed_at and cancelled_at, once set, never change;
\* and the set timestamps are ordered: claimed_at <= confirmed_at <=
\* completed_at for a completed claim, claimed_at <= confirmed_at <=
\* cancelled_at (claimed_at <= cancelled_at when cancelled from pending) for a
\* cancelled or no_show claim.
C16_TimestampsOnceAndOrdered ==
    /\ [][\A id \in DOMAIN claims :
              /\ ~IsNull(claims[id].confirmed_at)
                    => claims'[id].confirmed_at = claims[id].confirmed_at
              /\ ~IsNull(claims[id].completed_at)
                    => claims'[id].completed_at = claims[id].completed_at
              /\ ~IsNull(claims[id].cancelled_at)
                    => claims'[id].cancelled_at = claims[id].cancelled_at]_vars
    /\ [](\A id \in DOMAIN claims :
             LET c == claims[id]
             IN /\ ~IsNull(c.confirmed_at) => c.claimed_at <= Unwrap(c.confirmed_at)
                /\ (c.status = "completed" /\ ~IsNull(c.confirmed_at)
                       /\ ~IsNull(c.completed_at))
                      => Unwrap(c.confirmed_at) <= Unwrap(c.completed_at)
                /\ (c.status \in {"cancelled", "no_show"} /\ ~IsNull(c.cancelled_at))
                      => /\ c.claimed_at <= Unwrap(c.cancelled_at)
                         /\ ~IsNull(c.confirmed_at)
                               => Unwrap(c.confirmed_at) <= Unwrap(c.cancelled_at))

\* ------------------------------------------------------------------ hidden listings
\* Table ls without the row lid.
WithoutListing(ls, lid) == [k \in DOMAIN ls \ {lid} |-> ls[k]]

\* The listing lid is hidden from grower u: soft-deleted, or owned by another.
HiddenFromGrower(lid, u) == listings[lid].deleted \/ listings[lid].user_id # u

\* C17: a soft-deleted listing, and for update_listing also a listing of
\* another owner, is treated as non-existent on every write path: create_claim
\* against it, transition_claim on each of its claims and update_listing
\* answer exactly as they do when the row is absent, which for a well-formed
\* request of an authorised caller is 404 not found, and no listing row and no
\* claim row changes.
C17_HiddenListingNotFound ==
    \A lid \in DOMAIN listings :
       /\ listings[lid].deleted =>
            /\ \A u \in StoreUsers, r \in OptRequestIds, q \in 0..MaxQty :
                  LET out == CreateOutcome(u, lid, r, q, None)
                      absent == CreateClaimOutcome(WithoutListing(listings, lid),
                                   claims, requests, u, lid, r, q, None, now)
                  IN /\ ~out.committed
                     /\ out.listings = listings /\ out.claims = claims
                     /\ out.response = absent.response
                     /\ (u \in AllGatherers /\ q > 0)
                           => out.response = error_response(404, MsgListingNotFound)
            /\ \A id \in DOMAIN claims : claims[id].listing_id = lid =>
                  \A actor \in StoreUsers, target \in ALLOWED_CLAIM_STATUSES :
                     LET out == Outcome(actor, id, target, None)
                     IN /\ Rejects(out)
                        /\ out.response = error_response(404, MsgClaimNotFound)
                        /\ out.response =
                             TransitionOutcome(WithoutListing(listings, lid), claims,
                                               actor, id, target, None, now).response
       /\ \A u \in StoreUsers, c \in CropIds, q \in 0..MaxTotal, s \in OptListingStatus :
             HiddenFromGrower(lid, u) =>
                LET out == UpdateListingOutcome(listings, u, lid, c, q, s)
                    absent == UpdateListingOutcome(WithoutListing(listings, lid),
                                                   u, lid, c, q, s)
                IN /\ out.listings = listings
                   /\ out.event = "none"
                   /\ out.response = absent.response
                   /\ (u \in AllGrowers /\ q > 0)
                         => out.response = error_response(404, MsgListingNotFound)

\* A soft-deleted listing with a claim on it, and a transition of that claim
\* just answered not found.
C17_Witness ==
    \E id \in DOMAIN claims :
       /\ claims[id].listing_id \in DOMAIN listings
       /\ listings[claims[id].listing_id].deleted
       /\ response = error_response(404, MsgClaimNotFound)

\* ------------------------------------------------------------------ idempotent create
\* create_listing with an Idempotency-Key by two growers whose keys collide on
\* the derived id, claims on the listings and their transitions, and soft
\* deletion of a listing.
IdempotencyNext ==
    \/ \E u \in AllGrowers, k \in IdempotencyKeys, q \in 1..MaxTotal :
          create_listing(u, Some(k), "l1", "c1", q, None)
    \/ \E lid \in AllListingIds, q \in 1..MaxQty :
          /\ claims = << >>
          /\ create_claim("a", lid, None, q, None)
    \/ \E u \in AllGrowers \cup {"a"}, s \in ALLOWED_CLAIM_STATUSES :
          transition_claim(u, 1, s, None)
    \/ \E id \in AllListingIds : soft_delete_listing(id)

SpecIdempotency == Init /\ [][IdempotencyNext]_vars

\* What create_listing does when it runs in the current state.
Replay(u, k, c, q, s) == CreateListingOutcome(listings, u, Some(k), "l1", c, q, s)

\* A row stored for (owner u, key k): an earlier create_listing of u with k inserted it.
FirstCallDone(u, k) ==
    /\ derive_deterministic_listing_id(u, k) \in DOMAIN listings
    /\ listings[derive_deterministic_listing_id(u, k)].user_id = u
    /\ ~listings[derive_deterministic_listing_id(u, k)].deleted

\* C18: once create_listing of owner u with key k has inserted its row, every
\* later call of u with k, whatever its payload, leaves the table as it is,
\* emits no listing.created event and returns 201; and the body it returns is
\* the body of the first call, that is, it does not change from one state to
\* the next while the row is there, claim transitions included.
C18_CreateIdempotent ==
    /\ [](\A u \in AllGrowers, k \in IdempotencyKeys :
            FirstCallDone(u, k) =>
               \A c \in CropIds, q \in 1..MaxTotal, s \in OptListingStatus :
                  /\ Replay(u, k, c, q, s).listings = listings
                  /\ Replay(u, k, c, q, s).event = "none"
                  /\ Replay(u, k, c, q, s).response = json_response(201))
    /\ [][\A u \in AllGrowers, k \in IdempotencyKeys :
            (FirstCallDone(u, k) /\ FirstCallDone(u, k)')
               => Replay(u, k, "c2", 1, None).body' = Replay(u, k, "c2", 1, None).body]_vars

\* C19: create_listing with an idempotency key answers 409 exactly when a row
\* with the derived id exists and belongs to another owner; a row of the
\* caller never gives 409.
C19_ConflictIffForeignRow ==
    \A u \in AllGrowers, k \in IdempotencyKeys, q \in 1..MaxTotal :
       (Replay(u, k, "c1", q, None).response.code = 409)
          <=> ( /\ derive_deterministic_listing_id(u, k) \in DOMAIN listings
                /\ listings[derive_deterministic_listing_id(u, k)].user_id # u )

\* ------------------------------------------------------------------ update of the total
\* update_listing on one listing of grower g whose quantity_remaining is null
\* or any amount up to its total, by its owner and by another grower.
UpdateTotals == 0..(MaxTotal + 1)

UpdateInit ==
    /\ \E Q \in 1..MaxTotal, s \in {"active", "claimed"} :
       \E r \in {None} \cup {Some(n) : n \in 0..Q} :
          listings = [id \in {"l1"} |->
                        [InsertListingRow("g", "c1", Q, s)
                           EXCEPT !.quantity_remaining = r]]
    /\ claims = << >>
    /\ requests = << >>
    /\ now = 0
    /\ response = json_response(0)
    /\ tx = [t \in TxIds |-> IdleTx]
    /\ PipelineInit

UpdateNext ==
    \E u \in AllGrowers, c \in CropIds, q \in UpdateTotals, s \in OptListingStatus :
       update_listing(u, "l1", c, q, s)

SpecUpdateListing == UpdateInit /\ [][UpdateNext]_vars

\* C20: an update_listing that updates the row with new total T leaves
\* quantity_remaining = min(r, T), r being the quantity_remaining before (T
\* when it was null): never null, never above T, and never above r.
C20_RemainingClampedToTotal ==
    \A id \in DOMAIN listings, u \in AllGrowers, c \in CropIds,
       T \in UpdateTotals, s \in OptListingStatus :
       LET out == UpdateListingOutcome(listings, u, id, c, T, s)
           r == listings[id].quantity_remaining
           after == out.listings[id].quantity_remaining
       IN out.response = json_response(200) =>
             /\ ~IsNull(after)
             /\ Unwrap(after) <= T
             /\ IsNull(r) => Unwrap(after) = T
             /\ ~IsNull(r) => /\ Unwrap(after) <= Unwrap(r)
                              /\ Unwrap(after) \in {Unwrap(r), T}

\* An update that raised the total above quantity_remaining and left
\* quantity_remaining where it was.
C20_Witness ==
    /\ response = json_response(200)
    /\ "l1" \in DOMAIN listings
    /\ listings["l1"].quantity_total = MaxTotal + 1
    /\ listings["l1"].quantity_remaining = Some(1)

\* ------------------------------------------------------------------ event publication
\* What client.put_events().send() gives: every entry accepted, an error of
\* the transport, or a response with failed_entry_count > 0.
BusOutcomes == {"accepted", "transport_error", "rejected"}

MsgEmitClaimTransport == "Failed to emit claim event: transport error"
MsgEmitClaimRejected == "Failed to emit claim event: one or more entries were rejected"
MsgEmitListingTransport == "Failed to emit listing event: transport error"
MsgEmitListingRejected == "Failed to emit listing event: one or more entries were rejected"

\* emit_claim_event / emit_listing_event: Ok(()) or the Err they return.
emit_claim_event(bus) ==
    IF bus = "transport_error" THEN [ok |-> FALSE, err |-> MsgEmitClaimTransport]
    ELSE IF bus = "rejected" THEN [ok |-> FALSE, err |-> MsgEmitClaimRejected]
    ELSE [ok |-> TRUE, err |-> "none"]

emit_listing_event(bus) ==
    IF bus = "transport_error" THEN [ok |-> FALSE, err |-> MsgEmitListingTransport]
    ELSE IF bus = "rejected" THEN [ok |-> FALSE, err |-> MsgEmitListingRejected]
    ELSE [ok |-> TRUE, err |-> "none"]

\* Mutant: the error of the publication is returned to the handler.
emit_claim_event_best_effort_propagates(bus) ==
    [ok |-> emit_claim_event(bus).ok, err |-> emit_claim_event(bus).err, logged |-> {}]

\* emit_claim_event_best_effort: returns (); an Err is written to the log.
emit_claim_event_best_effort(bus) ==
    [ok |-> TRUE, err |-> "none",
     logged |-> IF emit_claim_event(bus).ok THEN {} ELSE {emit_claim_event(bus).err}]

\* emit_listing_event_best_effort: returns (); an Err is written to the log.
emit_listing_event_best_effort(bus) ==
    [ok |-> TRUE, err |-> "none",
     logged |-> IF emit_listing_event(bus).ok THEN {} ELSE {emit_listing_event(bus).err}]

\* The tail of a handler after its write: the event is handed to the bus when
\* the handler emits one (detail_type is not "none"), and the response resp
\* is returned.  tables is what the handler has committed by then; claim_id
\* is 0 in the event of a listing.
Published(tables, resp, detail_type, listing_id, claim_id, bus, emitted) ==
    IF detail_type = "none"
    THEN [listings |-> tables.listings, claims |-> tables.claims, response |-> resp,
          events |-> events, log |-> log]
    ELSE [listings |-> tables.listings, claims |-> tables.claims,
          response |-> IF emitted.ok THEN resp
                       ELSE map_api_error_to_response(emitted.err),
          events |-> IF bus = "accepted"
                     THEN events \cup {[detail_type |-> detail_type,
                                         listing_id |-> listing_id,
                                         claim_id |-> claim_id]}
                     ELSE events,
          log |-> log \cup emitted.logged]

\* The four write handlers, each whole, with the bus answering bus.
CreateClaimPublished(bus, claimer_id, listing_id, quantity_claimed) ==
    LET out == CreateOutcome(claimer_id, listing_id, None, quantity_claimed, None)
    IN Published(out, out.response,
                 IF out.committed THEN "claim.created" ELSE "none",
                 listing_id, NewClaimId, bus, emit_claim_event_best_effort(bus))

\* Mutant: the event is published before the outcome of the transaction is known.
TransitionClaimPublished_emits_uncommitted(bus, actor_user_id, id, target_status) ==
    LET out == Outcome(actor_user_id, id, target_status, None)
    IN Published(out, out.response, "claim.updated",
                 IF id \in DOMAIN claims THEN claims[id].listing_id ELSE "none",
                 id, bus, emit_claim_event_best_effort(bus))

TransitionClaimPublished(bus, actor_user_id, id, target_status) ==
    LET out == Outcome(actor_user_id, id, target_status, None)
    IN Published(out, out.response,
                 IF out.committed THEN "claim.updated" ELSE "none",
                 IF out.committed THEN claims[id].listing_id ELSE "none",
                 id, bus, emit_claim_event_best_effort(bus))

CreateListingPublished(bus, user_id, idempotency_key, crop_id, quantity_total) ==
    LET out == CreateListingOutcome(listings, user_id, Some(idempotency_key), "l1", crop_id, quantity_total, None)
    IN Published([listings |-> out.listings, claims |-> claims], out.response,
                 out.event, derive_deterministic_listing_id(user_id, idempotency_key),
                 0, bus, emit_listing_event_best_effort(bus))

UpdateListingPublished(bus, user_id, id, crop_id, quantity_total) ==
    LET out == UpdateListingOutcome(listings, user_id, id, crop_id, quantity_total, None)
    IN Published([listings |-> out.listings, claims |-> claims], out.response,
                 out.event, id, 0, bus, emit_listing_event_best_effort(bus))

\* A handler that ran whole and left p.
handler_published(p) ==
    /\ listings' = p.listings
    /\ claims' = p.claims
    /\ response' = p.response
    /\ events' = p.events
    /\ log' = p.log
    /\ UNCHANGED << requests, now, tx, signals, checkpoint, run, summaries >>

PublicationNext ==
    \/ \E bus \in BusOutcomes :
          handler_published(CreateListingPublished(bus, "g", "k1", "c1", MaxTotal))
    \/ \E bus \in BusOutcomes, q \in {1, MaxTotal} :
          handler_published(UpdateListingPublished(bus, "g", "l1", "c1", q))
    \/ \E bus \in BusOutcomes :
          /\ claims = << >>
          /\ handler_published(CreateClaimPublished(bus, "a", "l1", MaxQty))
    \/ \E bus \in BusOutcomes, u \in {"g", "a"}, s \in ALLOWED_CLAIM_STATUSES :
          handler_published(TransitionClaimPublished(bus, u, 1, s))

SpecPublication == Init /\ [][PublicationNext]_vars

\* The store and the response a handler leaves are those it leaves when the
\* bus accepts the event.
SameAsAccepted(p, accepted) ==
    /\ p.listings = accepted.listings
    /\ p.claims = accepted.claims
    /\ p.response = accepted.response

\* C21: for create_claim, transition_claim, create_listing and update_listing
\* the committed store and the response are the same whether the publication
\* of the event succeeds or fails (transport error, rejected entry): a failed
\* publication leaves the write committed and the response successful.
C21_PublicationNeverFailsOperation ==
    \A bus \in BusOutcomes :
       /\ \A q \in 1..MaxQty, lid \in ListingIds :
             SameAsAccepted(CreateClaimPublished(bus, "a", lid, q),
                            CreateClaimPublished("accepted", "a", lid, q))
       /\ \A u \in {"g", "a"}, id \in {1}, s \in ALLOWED_CLAIM_STATUSES :
             /\ SameAsAccepted(TransitionClaimPublished(bus, u, id, s),
                               TransitionClaimPublished("accepted", u, id, s))
             /\ Outcome(u, id, s, None).committed
                   => /\ TransitionClaimPublished(bus, u, id, s).response = json_response(200)
                      /\ TransitionClaimPublished(bus, u, id, s).claims
                            = Outcome(u, id, s, None).claims
       /\ \A u \in AllGrowers, k \in IdempotencyKeys, q \in 1..MaxTotal :
             SameAsAccepted(CreateListingPublished(bus, u, k, "c1", q),
                            CreateListingPublished("accepted", u, k, "c1", q))
       /\ \A u \in AllGrowers, id \in ListingIds, q \in 1..MaxTotal :
             SameAsAccepted(UpdateListingPublished(bus, u, id, "c1", q),
                            UpdateListingPublished("accepted", u, id, "c1", q))

\* Claim 1 was confirmed and answered 200 although the bus took no event of
\* that claim and the failure was logged.
C21_Witness ==
    /\ 1 \in DOMAIN claims
    /\ claims[1].status = "confirmed"
    /\ response = json_response(200)
    /\ \A e \in events : e.detail_type \notin {"claim.created", "claim.updated"}
    /\ MsgEmitClaimRejected \in log

\* ------------------------------------------------------------------ two transitions of one claim
\* Two transition_claim transactions on claim 1, both open before either takes
\* its row locks; the claim is pending, or confirmed with its quantity held.
PairInit ==
    \E Q \in 1..MaxTotal, q \in 1..MaxQty, confirmed \in BOOLEAN :
        /\ q <= Q
        /\ listings = [lid \in {"l1"} |->
                          IF confirmed
                          THEN DecrementRow(InsertListingRow("g", "c1", Q, "active"), q)
                          ELSE InsertListingRow("g", "c1", Q, "active")]
        /\ claims = [id \in {1} |->
                        IF confirmed
                        THEN [PendingClaim("l1", "a", q) EXCEPT
                                 !.status = "confirmed", !.confirmed_at = Some(0)]
                        ELSE PendingClaim("l1", "a", q)]
        /\ requests = << >>
        /\ now = 0
        /\ response = json_response(0)
        /\ tx = [t \in TxIds |-> [IdleTx EXCEPT !.pc = "begun", !.op = "transition"]]
        /\ PipelineInit

PairNext ==
    \/ Tick
    \/ \E t \in TxIds : tc_lock_claim(t, 1)
    \/ \E t \in TxIds : tc_lock_listing(t)
    \/ \E t \in TxIds, u \in {"g", "a"}, s \in ALLOWED_CLAIM_STATUSES, n \in OptNotes :
          tc_finish(t, u, s, n)

SpecTransitionPair == PairInit /\ [][PairNext]_vars

\* Transaction t runs second: it ends in this step, after transaction u has
\* committed a transition.
RunsSecond(t, u) ==
    /\ t # u
    /\ tx[u].pc = "done"
    /\ tx[u].response = json_response(200)
    /\ tx[t].pc = "locked"
    /\ tx'[t].pc = "done"

\* The quantity_remaining of listing l1 (never null in this specification).
Remaining == Unwrap(listings["l1"].quantity_remaining)

Day == 86400
Hour == 3600
BucketSeconds == 300
ClockStep == 100     \* what the clock advances by in one step
MaxInstant == 150    \* last reading of the clock in the worker specifications

SUPPORTED_WINDOWS_DAYS == <<7, 14, 30>>
GEO_PRECISIONS == <<4, 5, 6>>
SCHEMA_VERSION == 1

\* Geo keys are sequences of characters.  K7 is a geohash of precision 7 as
\* geocode_address stores it; K5 and K3 are shorter keys, KU is a key that is
\* neither trimmed nor lowercased (5 characters once normalized).
K7 == <<"9", "q", "8", "y", "y", "k", "8">>
K5 == <<"9", "q", "8", "y", "y">>
K3 == <<"9", "q", "8">>
KU == <<" ", "9", "Q", "8", "Y", "y", " ">>
GeoKeys == {K7, K5, K3, KU}

Whitespace == {" "}
to_ascii_lowercase_char(ch) == IF ch = "Q" THEN "q" ELSE IF ch = "Y" THEN "y" ELSE ch
to_ascii_lowercase(str) == [i \in 1..Len(str) |-> to_ascii_lowercase_char(str[i])]

RECURSIVE trim_start(_)
trim_start(str) ==
    IF str # << >> /\ Head(str) \in Whitespace THEN trim_start(Tail(str)) ELSE str
RECURSIVE trim_end(_)
trim_end(str) ==
    IF str # << >> /\ str[Len(str)] \in Whitespace
    THEN trim_end(SubSeq(str, 1, Len(str) - 1)) ELSE str
trim(str) == trim_end(trim_start(str))

\* geo_key.trim().to_ascii_lowercase()
normalized(geo_key) == to_ascii_lowercase(trim(geo_key))

\* Mutant: the filter on the length of the key is missing (a slice past the
\* end is cut at the end).
geo_prefixes_unfiltered(geo_key) ==
    {SubSeq(normalized(geo_key), 1, IF Len(normalized(geo_key)) >= GEO_PRECISIONS[i] THEN GEO_PRECISIONS[i] ELSE Len(normalized(geo_key))) : i \in DOMAIN GEO_PRECISIONS}

\* geo_prefixes: the prefixes of the normalized key of the precisions it reaches.
geo_prefixes(geo_key) ==
    {SubSeq(normalized(geo_key), 1, GEO_PRECISIONS[i]) : i \in {j \in DOMAIN GEO_PRECISIONS : Len(normalized(geo_key)) >= GEO_PRECISIONS[j]}}

\* A GeoScope: crop_id is None for the all-crops scope.
GeoScope(geo_boundary_key, crop_id) ==
    [geo_boundary_key |-> geo_boundary_key, crop_id |-> crop_id]

\* expand_geo_scopes on a set of source pairs <<geo_key, crop_id>>: the
\* HashSet makes each scope occur once.
expand_geo_scopes(source_pairs) ==
    UNION {UNION {{GeoScope(prefix, pair[2]), GeoScope(prefix, None)} :
                     prefix \in geo_prefixes(pair[1])} : pair \in source_pairs}

\* Mutant: every window is retained 90 days.
retention_days_flat(window_days) == 90

retention_days(window_days) ==
    IF window_days = 7 THEN 35 ELSE IF window_days = 14 THEN 49 ELSE 90

\* Mutant: the replay timestamp itself keys the bucket.
compute_bucket_start_identity(occurred_at) == occurred_at

\* compute_bucket_start of the replay driver: seconds - seconds.rem_euclid(300).
compute_bucket_start(occurred_at) == occurred_at - (occurred_at % BucketSeconds)

\* ------------------------------------------------------------------ workers: store reads
\* The rows as the workers read them: geo_key and crop_id are nullable
\* (None, or Some(value)), created_at is an instant, a request has a quantity.
WorkerListingRow(geo_key, crop_id, quantity_remaining, status, created_at, deleted) ==
    [user_id |-> "g", geo_key |-> geo_key, crop_id |-> crop_id, quantity_total |-> MaxTotal, quantity_remaining |-> quantity_remaining, status |-> status, created_at |-> created_at, deleted |-> deleted]

WorkerRequestRow(geo_key, crop_id, quantity, status, created_at, deleted) ==
    [user_id |-> "a", geo_key |-> geo_key, crop_id |-> crop_id, quantity |-> quantity, status |-> status, created_at |-> created_at, deleted |-> deleted]

\* The source pair of a row: none when its geo_key is null.
PairOf(row) ==
    IF IsNull(row.geo_key) THEN {} ELSE {<<Unwrap(row.geo_key), row.crop_id>>}

\* load_listing_scope / load_request_scope: the source pair of the row, if
\* the row is there and not soft-deleted.
load_scope(rows, id) ==
    IF id \in DOMAIN rows /\ ~rows[id].deleted THEN PairOf(rows[id]) ELSE {}

\* The DomainEvent of parse_event; an absent id is None.
ListingEvent(listing_id) == [kind |-> "Listing", listing_id |-> Some(listing_id), request_id |-> None]
RequestEvent(request_id) == [kind |-> "Request", listing_id |-> None, request_id |-> Some(request_id)]
ClaimEvent(listing_id, request_id) == [kind |-> "Claim", listing_id |-> listing_id, request_id |-> request_id]

\* resolve_scopes of the live aggregator.
resolve_scopes(ls, rs, event) ==
    expand_geo_scopes(
        (IF IsNull(event.listing_id) THEN {} ELSE load_scope(ls, Unwrap(event.listing_id)))
        \cup (IF IsNull(event.request_id) THEN {} ELSE load_scope(rs, Unwrap(event.request_id))))

\* The rows of a table created in [from_ts, to), not soft-deleted, with a geo_key.
CreatedIn(rows, from_ts, to) ==
    {id \in DOMAIN rows : /\ ~rows[id].deleted
                          /\ rows[id].created_at >= from_ts
                          /\ rows[id].created_at < to
                          /\ ~IsNull(rows[id].geo_key)}

\* The source pairs of the claims claimed in [from_ts, to) on non-deleted
\* listings: the listing's pair and, by the left join, the request's.
ClaimPairs(ls, rs, cs, from_ts, to) ==
    UNION {PairOf(ls[cs[id].listing_id])
             \cup (IF IsNull(cs[id].request_id) \/ Unwrap(cs[id].request_id) \notin DOMAIN rs
                   THEN {} ELSE PairOf(rs[Unwrap(cs[id].request_id)])) :
           id \in {c \in DOMAIN cs : /\ cs[c].claimed_at >= from_ts
                                     /\ cs[c].claimed_at < to
                                     /\ cs[c].listing_id \in DOMAIN ls
                                     /\ ~ls[cs[c].listing_id].deleted}}

\* load_replay_scopes: from defaults to to - 24h.
load_replay_scopes(ls, rs, cs, from, to) ==
    LET from_ts == IF IsNull(from) THEN to - 24 * Hour ELSE Unwrap(from)
    IN expand_geo_scopes(
          {<<Unwrap(ls[id].geo_key), ls[id].crop_id>> : id \in CreatedIn(ls, from_ts, to)}
          \cup {<<Unwrap(rs[id].geo_key), rs[id].crop_id>> : id \in CreatedIn(rs, from_ts, to)}
          \cup ClaimPairs(ls, rs, cs, from_ts, to))

\* load_backfill_scopes: every pair of the non-deleted listings and requests.
load_backfill_scopes(ls, rs) ==
    expand_geo_scopes(UNION {load_scope(ls, id) : id \in DOMAIN ls}
                      \cup UNION {load_scope(rs, id) : id \in DOMAIN rs})

\* geo_key like 'prefix%' on a non-null geo_key.
Like(geo_key, prefix) ==
    /\ ~IsNull(geo_key)
    /\ Len(Unwrap(geo_key)) >= Len(prefix)
    /\ SubSeq(Unwrap(geo_key), 1, Len(prefix)) = prefix

\* The listing statuses the supply query counts.
AGGREGATED_LISTING_STATUSES == {"active", "pending", "claimed"}

\* The rows a recompute counts: in the window, in the scope.
InScope(rows, statuses, scope, window_start) ==
    {id \in DOMAIN rows : /\ ~rows[id].deleted
                          /\ rows[id].status \in statuses
                          /\ rows[id].created_at >= window_start
                          /\ Like(rows[id].geo_key, scope.geo_boundary_key)
                          /\ (IsNull(scope.crop_id) \/ rows[id].crop_id = scope.crop_id)}

RECURSIVE SumOver(_, _)
\* sum(column) over the rows ids; qty[id] is the column, None where it is null.
SumOver(ids, qty) ==
    IF ids = {} THEN 0
    ELSE LET id == CHOOSE i \in ids : TRUE
         IN (IF IsNull(qty[id]) THEN 0 ELSE Unwrap(qty[id])) + SumOver(ids \ {id}, qty)

\* The two aggregate queries of recompute_and_upsert and the scores; a score
\* a / b is kept as the pair <<a, b>>.
Aggregates(ls, rs, scope, window_start) ==
    LET lids == InScope(ls, AGGREGATED_LISTING_STATUSES, scope, window_start)
        rids == InScope(rs, {"open"}, scope, window_start)
        supply == SumOver(lids, [id \in lids |-> ls[id].quantity_remaining])
        demand == SumOver(rids, [id \in rids |-> Some(rs[id].quantity)])
    IN [listing_count |-> Cardinality(lids), request_count |-> Cardinality(rids),
        supply_quantity |-> supply, demand_quantity |-> demand,
        scarcity_score |-> <<demand, supply + 1>>,
        abundance_score |-> <<supply, demand + 1>>]

\* Mutant: the supply query of the replay driver counts listings of every status.
ReplayAggregates_any_status(ls, rs, scope, window_start) ==
    LET lids == InScope(ls, ALLOWED_LISTING_STATUS, scope, window_start)
        rids == InScope(rs, {"open"}, scope, window_start)
        supply == SumOver(lids, [id \in lids |-> ls[id].quantity_remaining])
        demand == SumOver(rids, [id \in rids |-> Some(rs[id].quantity)])
    IN [listing_count |-> Cardinality(lids), request_count |-> Cardinality(rids),
        supply_quantity |-> supply, demand_quantity |-> demand,
        scarcity_score |-> <<demand, supply + 1>>,
        abundance_score |-> <<supply, demand + 1>>]

\* The two aggregate queries and the scores of recompute_and_upsert of the
\* replay driver (its own copy of the statements).
ReplayAggregates(ls, rs, scope, window_start) ==
    LET listing_rows == {id \in DOMAIN ls :
                            /\ ~ls[id].deleted
                            /\ ls[id].status \in {"active", "pending", "claimed"}
                            /\ ls[id].created_at >= window_start
                            /\ Like(ls[id].geo_key, scope.geo_boundary_key)
                            /\ (IsNull(scope.crop_id) \/ ls[id].crop_id = scope.crop_id)}
        request_rows == {id \in DOMAIN rs :
                            /\ ~rs[id].deleted
                            /\ rs[id].status = "open"
                            /\ rs[id].created_at >= window_start
                            /\ Like(rs[id].geo_key, scope.geo_boundary_key)
                            /\ (IsNull(scope.crop_id) \/ rs[id].crop_id = scope.crop_id)}
        supply_quantity == SumOver(listing_rows,
                                   [id \in listing_rows |-> ls[id].quantity_remaining])
        demand_quantity == SumOver(request_rows,
                                   [id \in request_rows |-> Some(rs[id].quantity)])
    IN [listing_count |-> Cardinality(listing_rows),
        request_count |-> Cardinality(request_rows),
        supply_quantity |-> supply_quantity, demand_quantity |-> demand_quantity,
        scarcity_score |-> <<demand_quantity, supply_quantity + 1>>,
        abundance_score |-> <<supply_quantity, demand_quantity + 1>>]

\* ------------------------------------------------------------------ workers: runs
MaxRuns == 2         \* invocations of a worker in one behaviour

\* The pairs (scope, window) a run iterates.
ScopeWindows(scopes) ==
    {<<scope, SUPPORTED_WINDOWS_DAYS[i]>> : scope \in scopes, i \in DOMAIN SUPPORTED_WINDOWS_DAYS}

\* The key of a derived-signal row.
SignalKey(scope, window_days, bucket_start) ==
    <<SCHEMA_VERSION, scope.geo_boundary_key, scope.crop_id, window_days, bucket_start>>

\* upsert_derived_supply_signal: insert the row, or overwrite the row of the
\* same key.
upsert_derived_supply_signal(table, key, row) ==
    [k \in DOMAIN table \cup {key} |-> IF k = key THEN row ELSE table[k]]

\* The clock of the worker specifications.
Elapse ==
    /\ now + ClockStep <= MaxInstant
    /\ now' = now + ClockStep
    /\ UNCHANGED << listings, claims, requests, response, tx, pipeline >>

\* A run that starts now: what it keeps of the run before it.
StartedRun(worker) ==
    [IdleRun EXCEPT !.worker = worker, !.count = run.count + 1, !.started_at = now,
                    !.previous = IF run.count = 0 THEN << >>
                                 ELSE Some([event |-> run.event, started_at |-> run.started_at,
                                            keys |-> DOMAIN signals, rows |-> signals,
                                            dry_run |-> run.dry_run, mode |-> run.mode,
                                            from |-> run.from, to |-> run.to,
                                            bucket_start |-> run.bucket_start,
                                            visited |-> run.visited])]

\* handler of the live aggregator, up to its loop: with no scope it ends Ok
\* without a write.
handler_start(event) ==
    /\ run.result # "running"
    /\ run.count < MaxRuns
    /\ LET scopes == resolve_scopes(listings, requests, event)
       IN run' = [StartedRun("live") EXCEPT
                     !.event = event,
                     !.result = IF scopes = {} THEN "ok" ELSE "running",
                     !.pending = ScopeWindows(scopes)]
    /\ UNCHANGED << listings, claims, requests, now, response, tx, events, log, signals, checkpoint, summaries >>

\* Mutant: the live aggregator keys its rows by the 5-minute floor of the time.
LiveBucketStart_floored(t) == compute_bucket_start(t)

\* bucket_start of the live recompute_and_upsert: Utc::now().
LiveBucketStart(t) == t

\* recompute_and_upsert up to its upsert: the clock is read for window_start,
\* expires_at and (live) bucket_start, then the two aggregate queries run.
recompute_query ==
    /\ run.result = "running"
    /\ ~run.dry_run
    /\ IsNull(run.current)
    /\ run.pending # {}
    /\ LET pair == CHOOSE p \in run.pending : TRUE
           window_start == now - pair[2] * Day
       IN run' = [run EXCEPT !.current =
                     Some([scope |-> pair[1], window_days |-> pair[2],
                           expires_at |-> now + retention_days(pair[2]) * Day,
                           bucket_start |-> IF run.worker = "live"
                                            THEN LiveBucketStart(now)
                                            ELSE run.bucket_start,
                           aggregates |-> IF run.worker = "live"
                                          THEN Aggregates(listings, requests, pair[1],
                                                          window_start)
                                          ELSE ReplayAggregates(listings, requests, pair[1],
                                                                window_start)])]
    /\ UNCHANGED << listings, claims, requests, now, response, tx, events, log, signals, checkpoint, summaries >>

\* write_checkpoint of the replay driver.
write_checkpoint(config) ==
    Some([last_processed_to |-> config.to, updated_at |-> now, mode |-> config.mode])

\* Mutant: the checkpoint is written after a dry run as well.
CheckpointAfter_any_run(r) ==
    IF r.checkpoint_file THEN write_checkpoint(r) ELSE checkpoint

\* The end of main of the replay driver after its loop: the checkpoint is
\* written if the run is not a dry run and a path is configured.
CheckpointAfter(r) ==
    IF ~r.dry_run /\ r.checkpoint_file THEN write_checkpoint(r) ELSE checkpoint

\* The run r with its pair done: it ends Ok when no pair is left.
PairDone(r, pair) ==
    [r EXCEPT !.pending = r.pending \ {pair},
              !.visited = r.visited \cup {pair},
              !.current = << >>,
              !.result = IF r.pending \ {pair} = {} THEN "ok" ELSE "running"]

\* The upsert of recompute_and_upsert: the clock is read again for
\* computed_at.  After the last pair a replay run writes its checkpoint.
recompute_upsert ==
    /\ run.result = "running"
    /\ ~IsNull(run.current)
    /\ LET c == Unwrap(run.current)
           key == SignalKey(c.scope, c.window_days, c.bucket_start)
           row == [aggregates |-> c.aggregates, computed_at |-> now,
                   expires_at |-> c.expires_at, window_days |-> c.window_days,
                   source |-> run.worker]
           done == PairDone(run, <<c.scope, c.window_days>>)
       IN /\ signals' = upsert_derived_supply_signal(signals, key, row)
          /\ run' = [done EXCEPT !.upserts = run.upserts + 1,
                                 !.keys = run.keys \cup {key}]
          /\ checkpoint' = IF run.worker = "replay" /\ done.result = "ok"
                           THEN CheckpointAfter(run) ELSE checkpoint
    /\ UNCHANGED << listings, claims, requests, now, response, tx, events, log, summaries >>

\* Mutant: a dry run skips the pairs of the windows after the first.
replay_dry_step_first_window ==
    /\ run.result = "running"
    /\ run.dry_run
    /\ run.pending # {}
    /\ LET pair == CHOOSE p \in run.pending : TRUE
           done == PairDone(run, pair)
       IN /\ run' = IF pair[2] = SUPPORTED_WINDOWS_DAYS[1] THEN done
                     ELSE [done EXCEPT !.visited = run.visited]
          /\ checkpoint' = IF done.result = "ok" THEN CheckpointAfter(run) ELSE checkpoint
    /\ UNCHANGED << listings, claims, requests, now, response, tx, events, log, signals, summaries >>

\* One iteration of the loop of a dry run: the pair is logged, nothing is written.
replay_dry_step ==
    /\ run.result = "running"
    /\ run.dry_run
    /\ run.pending # {}
    /\ LET done == PairDone(run, CHOOSE p \in run.pending : TRUE)
       IN /\ run' = done
          /\ checkpoint' = IF done.result = "ok" THEN CheckpointAfter(run) ELSE checkpoint
    /\ UNCHANGED << listings, claims, requests, now, response, tx, events, log, signals, summaries >>

\* default_from_for_mode
default_from_for_mode(mode, to) == IF mode = "replay" THEN Some(to - 24 * Hour) ELSE None

\* read_checkpoint: last_processed_to of the file, None when there is no file.
read_checkpoint == IF IsNull(checkpoint) THEN None ELSE Some(Unwrap(checkpoint).last_processed_to)

\* parse_cli_config: from_ts and to_ts are FROM_TS and TO_TS (None when unset).
parse_cli_config(mode, from_ts, to_ts, checkpoint_file, dry_run) ==
    LET to == IF IsNull(to_ts) THEN now ELSE Unwrap(to_ts)
    IN [mode |-> mode, dry_run |-> dry_run, checkpoint_file |-> checkpoint_file, to |-> to,
        from |-> IF ~IsNull(from_ts) THEN from_ts
                 ELSE IF checkpoint_file /\ ~IsNull(read_checkpoint) THEN read_checkpoint
                 ELSE default_from_for_mode(mode, to)]

\* The scopes main of the replay driver loads for its configuration.
ReplayScopes(config) ==
    IF config.mode = "replay"
    THEN load_replay_scopes(listings, requests, claims, config.from, config.to)
    ELSE load_backfill_scopes(listings, requests)

\* main of the replay driver up to its loop: with no scope it ends Ok at once.
replay_start(mode, from_ts, to_ts, checkpoint_file, dry_run) ==
    /\ run.result # "running"
    /\ run.count < MaxRuns
    /\ LET config == parse_cli_config(mode, from_ts, to_ts, checkpoint_file, dry_run)
           scopes == ReplayScopes(config)
       IN run' = [StartedRun("replay") EXCEPT
                     !.env = <<mode, from_ts, to_ts, checkpoint_file>>,
                     !.mode = config.mode, !.dry_run = config.dry_run,
                     !.from = config.from, !.to = config.to,
                     !.checkpoint_file = config.checkpoint_file,
                     !.bucket_start = compute_bucket_start(config.to),
                     !.result = IF scopes = {} THEN "ok" ELSE "running",
                     !.pending = ScopeWindows(scopes)]
    /\ UNCHANGED << listings, claims, requests, now, response, tx, events, log, signals, checkpoint, summaries >>

\* ------------------------------------------------------------------ live aggregator
OptGeoKeys == {None} \cup {Some(g) : g \in GeoKeys}
OptCropIds == {None} \cup {Some(c) : c \in CropIds}

\* A store of one listing and one request, created at instant 0, and no claim.
WorkerStore(lrow, rrow) ==
    /\ listings = [id \in {"l1"} |-> lrow]
    /\ requests = [id \in {"r1"} |-> rrow]
    /\ claims = << >>
    /\ now = 0
    /\ response = json_response(0)
    /\ tx = [t \in TxIds |-> IdleTx]
    /\ PipelineInit

LiveInit ==
    \E g \in OptGeoKeys, c \in {None, Some("c1")}, d \in BOOLEAN :
       /\ d => g = Some(K7)
       /\ WorkerStore(WorkerListingRow(g, c, Some(1), "active", 0, d),
                      WorkerRequestRow(Some(K7), Some("c2"), 1, "open", 0, FALSE))

LiveEvents == {ListingEvent("l1"), ListingEvent("l2"), RequestEvent("r1")}

\* An event is delivered and then, possibly, delivered again.
LiveNext ==
    \/ Elapse
    \/ \E event \in LiveEvents :
          /\ run.count > 0 => event = run.event
          /\ handler_start(event)
    \/ recompute_query
    \/ recompute_upsert

SpecLive == LiveInit /\ [][LiveNext]_vars

\* A finished invocation of the live handler.
LiveDone == run.worker = "live" /\ run.result = "ok"

\* The source pairs <<geo_key, crop_id>> of the entity a listing or request
\* event names: none when the entity is absent, deleted or has no geo_key.
EntityPairs(event) ==
    IF event.kind = "Listing" THEN load_scope(listings, Unwrap(event.listing_id))
    ELSE IF event.kind = "Request" THEN load_scope(requests, Unwrap(event.request_id))
    ELSE {}

\* The (scope, window) pairs the specification names for a geo_key and a
\* crop: prefix lengths 4, 5, 6 not above the length of the trimmed,
\* lowercased key, crop {crop, ALL}, windows 7, 14, 30 days.
NamedPairs(geo_key, crop_id) ==
    LET key == normalized(geo_key)
    IN {<<GeoScope(SubSeq(key, 1, p), c), w>> :
           p \in {q \in {4, 5, 6} : q <= Len(key)}, c \in {crop_id, None}, w \in {7, 14, 30}}

\* C23: a finished live run on a listing or request event has upserted once
\* for each pair of prefix {4,5,6} not longer than the geo_key, crop {c, ALL}
\* and window {7,14,30}, each key once: 18 upserts when the key has six
\* characters or more and the crop is not null; with no scope resolved the
\* handler has ended Ok without a write.
C23_UpsertsPerEvent ==
    (LiveDone /\ run.event.kind \in {"Listing", "Request"}) =>
        /\ EntityPairs(run.event) = {} => (run.upserts = 0 /\ run.keys = {})
        /\ \A pair \in EntityPairs(run.event) :
              /\ run.visited = NamedPairs(pair[1], pair[2])
              /\ run.upserts = Cardinality(run.visited)
              /\ Cardinality({<<k[2], k[3], k[4]>> : k \in run.keys}) = run.upserts
              /\ {<<GeoScope(k[2], k[3]), k[4]>> : k \in run.keys} = run.visited
              /\ run.keys \subseteq DOMAIN signals
              /\ (Len(normalized(pair[1])) >= 6 /\ ~IsNull(pair[2])) => run.upserts = 18

\* A live run on a listing with a seven-character key and a crop has made
\* its 18 upserts.
C23_Witness ==
    /\ LiveDone
    /\ run.event = ListingEvent("l1")
    /\ listings["l1"].geo_key = Some(K7)
    /\ ~IsNull(listings["l1"].crop_id)
    /\ run.upserts = 18

\* A redelivery of the event of the run before has finished, in the 5-minute
\* bucket in which that run started.
RedeliveredInBucket ==
    /\ LiveDone
    /\ run.count >= 2
    /\ run.upserts > 0
    /\ run.event = Unwrap(run.previous).event
    /\ compute_bucket_start(now) = compute_bucket_start(Unwrap(run.previous).started_at)

\* C24: every live upsert is keyed by the 5-minute floor of the time of
\* processing, so that after a redelivery within the bucket the set of
\* keys of the table is the set the first delivery left.
C24_RedeliveryOverwrites ==
    /\ (LiveDone => \A k \in run.keys : k[5] = compute_bucket_start(k[5]))
    /\ RedeliveredInBucket => DOMAIN signals = Unwrap(run.previous).keys

\* ------------------------------------------------------------------ replay driver
\* FROM_TS and TO_TS of an invocation (None when unset).
FromTs == {None, Some(0)}
ToTs == {None, Some(400)}

\* A store of one listing created at instant 0 and one request created at
\* instant 500, after every window replayed, both without a crop; possibly a
\* claim made at instant 0 on the listing and linked to the request.
ReplayInit ==
    \E g \in {None, Some(K5)}, claimed \in BOOLEAN :
       /\ listings = [id \in {"l1"} |-> WorkerListingRow(g, None, Some(1), "active", 0, FALSE)]
       /\ requests = [id \in {"r1"} |-> WorkerRequestRow(Some(K7), None, 1, "open", 500, FALSE)]
       /\ claims = IF claimed THEN << InsertClaimRow("l1", Some("r1"), "a", 1, None, 0) >>
                   ELSE << >>
       /\ now = 0
       /\ response = json_response(0)
       /\ tx = [t \in TxIds |-> IdleTx]
       /\ PipelineInit

\* The driver is run and then, possibly, run again with the same REPLAY_MODE,
\* FROM_TS, TO_TS and CHECKPOINT_FILE; DRY_RUN is chosen for each run.
ReplayNext ==
    \/ Elapse
    \/ \E mode \in {"replay", "backfill"}, from_ts \in FromTs, to_ts \in ToTs,
          checkpoint_file \in BOOLEAN, dry_run \in BOOLEAN :
          /\ run.count > 0 => run.env = <<mode, from_ts, to_ts, checkpoint_file>>
          /\ replay_start(mode, from_ts, to_ts, checkpoint_file, dry_run)
    \/ recompute_query
    \/ recompute_upsert
    \/ replay_dry_step

SpecReplay == ReplayInit /\ [][ReplayNext]_vars

\* A finished run of the replay driver.
ReplayDone == run.worker = "replay" /\ run.result = "ok"

\* The driver has run twice without DRY_RUN for the same bucket_start.
RerunOfBucket ==
    /\ ReplayDone
    /\ run.count >= 2
    /\ ~run.dry_run
    /\ ~Unwrap(run.previous).dry_run
    /\ run.bucket_start = Unwrap(run.previous).bucket_start
    /\ run.keys \cap Unwrap(run.previous).keys # {}

\* C25: for a fixed bucket_start and scope, a second run of the aggregator
\* on the same store leaves rows identical to those of the first run,
\* computed_at and expires_at included.
C25_RerunIdenticalRows ==
    RerunOfBucket =>
        \A k \in run.keys \cap Unwrap(run.previous).keys : signals[k] = Unwrap(run.previous).rows[k]

\* The retention the specification names for a window, in days.
NamedRetention(window_days) ==
    IF window_days = 7 THEN 35 ELSE IF window_days = 14 THEN 49 ELSE 90

\* C26: every derived-signal row satisfies expires_at = computed_at +
\* retention(window_days), with 7 -> 35, 14 -> 49 and 30 -> 90 days.
C26_ExpiresAtIsComputedAtPlusRetention ==
    \A k \in DOMAIN signals :
        /\ signals[k].window_days \in {7, 14, 30}
        /\ signals[k].expires_at
              = signals[k].computed_at + NamedRetention(signals[k].window_days) * Day

\* The driver has run twice over the same window, once with DRY_RUN and once
\* without.
DryAndWetRuns ==
    /\ ReplayDone
    /\ run.count >= 2
    /\ run.dry_run # Unwrap(run.previous).dry_run
    /\ run.mode = Unwrap(run.previous).mode
    /\ run.from = Unwrap(run.previous).from
    /\ run.to = Unwrap(run.previous).to

\* C27: a run with dry_run = true makes no upsert and leaves the table as it
\* found it, and it iterates exactly the (scope, window) pairs that a run with
\* dry_run = false iterates over the same store and window.
C27_DryRunSamePairsNoUpsert ==
    /\ (ReplayDone /\ run.dry_run) =>
          /\ run.upserts = 0
          /\ run.keys = {}
          /\ signals = IF run.count = 1 THEN << >> ELSE Unwrap(run.previous).rows
    /\ (ReplayDone /\ ~run.dry_run) => run.upserts = Cardinality(run.visited)
    /\ DryAndWetRuns => run.visited = Unwrap(run.previous).visited

\* A dry run and a run that writes have iterated the same six pairs.
C27_Witness ==
    /\ DryAndWetRuns
    /\ run.dry_run
    /\ Cardinality(run.visited) = 6
    /\ Cardinality(DOMAIN signals) = 6

\* C28: after every run of the driver that ends Ok with CHECKPOINT_FILE set,
\* dry run or not, scopes found or not, the checkpoint file holds
\* last_processed_to = the run's to.
C28_CheckpointAfterEveryRun ==
    (ReplayDone /\ run.checkpoint_file) =>
        /\ ~IsNull(checkpoint)
        /\ Unwrap(checkpoint).last_processed_to = run.to

\* ------------------------------------------------------------------ claim_read.rs
\* ListClaimsQuery: the filters are None when absent from the query string.
ListClaimsQuery(listing_id, request_id, status, limit, offset) ==
    [listing_id |-> listing_id, request_id |-> request_id, status |-> status,
     limit |-> limit, offset |-> offset]

require_claim_read_user_type(user_id) ==
    IF IsNull(user_type(user_id)) THEN [ok |-> FALSE, err |-> MsgTypeNotSet]
    ELSE [ok |-> TRUE, err |-> "none"]

\* Mutant: a caller who has no claim on the listing passes as a claimer.
ensure_listing_filter_access_any_caller(ls, cs, listing_id, user_id) ==
    IF listing_id \notin DOMAIN ls \/ ls[listing_id].deleted
    THEN [ok |-> FALSE, err |-> MsgListingNotFound]
    ELSE [ok |-> TRUE, err |-> "none"]

\* ensure_listing_filter_access: the listing is read without its deleted
\* rows, then the owner passes, then a claimer of the listing.
ensure_listing_filter_access(ls, cs, listing_id, user_id) ==
    IF listing_id \notin DOMAIN ls \/ ls[listing_id].deleted
    THEN [ok |-> FALSE, err |-> MsgListingNotFound]
    ELSE IF ls[listing_id].user_id = user_id
    THEN [ok |-> TRUE, err |-> "none"]
    ELSE IF \E c \in DOMAIN cs : cs[c].listing_id = listing_id /\ cs[c].claimer_id = user_id
    THEN [ok |-> TRUE, err |-> "none"]
    ELSE [ok |-> FALSE, err |-> MsgListingFilterForbidden]

\* ensure_request_filter_access: the request is read without its deleted
\* rows, then its owner passes, then the owner of a non-deleted listing that
\* has a claim linked to the request.
ensure_request_filter_access(ls, cs, rs, request_id, user_id) ==
    IF request_id \notin DOMAIN rs \/ rs[request_id].deleted
    THEN [ok |-> FALSE, err |-> MsgRequestNotFound]
    ELSE IF rs[request_id].user_id = user_id
    THEN [ok |-> TRUE, err |-> "none"]
    ELSE IF \E c \in DOMAIN cs : /\ cs[c].request_id = Some(request_id)
                                  /\ cs[c].listing_id \in DOMAIN ls
                                  /\ ls[cs[c].listing_id].user_id = user_id
                                  /\ ~ls[cs[c].listing_id].deleted
    THEN [ok |-> TRUE, err |-> "none"]
    ELSE [ok |-> FALSE, err |-> MsgRequestFilterForbidden]

\* validate_claim_filter_access: the listing filter is checked first.
validate_claim_filter_access(ls, cs, rs, user_id, query) ==
    LET listing_access == IF IsNull(query.listing_id) THEN [ok |-> TRUE, err |-> "none"]
                          ELSE ensure_listing_filter_access(ls, cs, Unwrap(query.listing_id),
                                                            user_id)
    IN IF ~listing_access.ok THEN listing_access
       ELSE IF IsNull(query.request_id) THEN [ok |-> TRUE, err |-> "none"]
       ELSE ensure_request_filter_access(ls, cs, rs, Unwrap(query.request_id), user_id)

\* The WHERE clause of the SELECT of list_claims on claim id, with its inner
\* join on the listing.
ListClaimsRowMatches(ls, cs, id, user_id, query) ==
    /\ cs[id].listing_id \in DOMAIN ls
    /\ ~ls[cs[id].listing_id].deleted
    /\ (cs[id].claimer_id = user_id \/ ls[cs[id].listing_id].user_id = user_id)
    /\ (IsNull(query.listing_id) \/ Some(cs[id].listing_id) = query.listing_id)
    /\ (IsNull(query.request_id) \/ cs[id].request_id = query.request_id)
    /\ (IsNull(query.status) \/ Some(cs[id].status) = query.status)

RECURSIVE OrderByClaimedAtDesc(_, _)
\* order by c.claimed_at desc, c.id desc of the claims ids.
OrderByClaimedAtDesc(cs, ids) ==
    IF ids = {} THEN << >>
    ELSE LET top == CHOOSE i \in ids : \A j \in ids :
                      \/ cs[i].claimed_at > cs[j].claimed_at
                      \/ (cs[i].claimed_at = cs[j].claimed_at /\ i >= j)
         IN << top >> \o OrderByClaimedAtDesc(cs, ids \ {top})

\* limit n offset k of a sequence of rows.
LimitOffset(rows, n, k) ==
    IF k >= Len(rows) THEN << >>
    ELSE SubSeq(rows, k + 1, IF k + n <= Len(rows) THEN k + n ELSE Len(rows))

\* list_claims: the result of the handler for a caller and a query; items
\* are the ids of the claims returned, in order.
ListClaimsOutcome(ls, cs, rs, user_id, query) ==
    LET authorised == require_claim_read_user_type(user_id)
        access == validate_claim_filter_access(ls, cs, rs, user_id, query)
        rows == LimitOffset(
                   OrderByClaimedAtDesc(cs, {id \in DOMAIN cs :
                                               ListClaimsRowMatches(ls, cs, id, user_id, query)}),
                   query.limit + 1, query.offset)
        has_more == Len(rows) > query.limit
        failed(message) == [error |-> message, actor |-> user_id, query |-> query,
                            items |-> << >>, has_more |-> FALSE, next_offset |-> None]
    IN IF ~authorised.ok THEN failed(authorised.err)
       ELSE IF ~access.ok THEN failed(access.err)
       ELSE [error |-> "none", actor |-> user_id, query |-> query,
             items |-> LimitOffset(rows, query.limit, 0), has_more |-> has_more,
             next_offset |-> IF has_more THEN Some(query.offset + query.limit) ELSE None]

list_claims(user_id, listing_id, request_id, status, limit, offset) ==
    /\ response' = ListClaimsOutcome(listings, claims, requests, user_id,
                                     ListClaimsQuery(listing_id, request_id, status, limit, offset))
    /\ UNCHANGED << pipeline, listings, claims, requests, now, tx >>

\* The claims of the stores read: a gatherer's claim on a listing, linked to
\* request r1 only when the claimer owns it (create_claim admits no other link).
ReadClaimRows ==
    {InsertClaimRow(l, r, u, 1, None, 0) :
        l \in AllListingIds, r \in {None, Some("r1")}, u \in AllGatherers}
    \ {InsertClaimRow(l, Some("r1"), "b", 1, None, 0) : l \in AllListingIds}

\* Listing l1 of grower g and l2 of grower h, request r1 of gatherer a, each
\* possibly soft-deleted, and up to two claims.
ClaimReadInit ==
    \E d1 \in BOOLEAN, d2 \in BOOLEAN, dr \in BOOLEAN :
       /\ listings = [id \in AllListingIds |->
                        [InsertListingRow(IF id = "l1" THEN "g" ELSE "h", "c1", 1, "active")
                           EXCEPT !.deleted = IF id = "l1" THEN d1 ELSE d2]]
       /\ requests = [id \in RequestIds |->
                        [InsertRequestRow("a", "c1", "open") EXCEPT !.deleted = dr]]
       /\ claims \in {<< >>} \cup {<< c >> : c \in ReadClaimRows}
                    \cup {<< c1, [c2 EXCEPT !.status = "confirmed"] >> :
                            c1 \in ReadClaimRows, c2 \in ReadClaimRows}
       /\ now = 0
       /\ response = json_response(0)
       /\ tx = [t \in TxIds |-> IdleTx]
       /\ PipelineInit

\* The filters of the queries: l3 and r2 name no row.
ListingFilters == {None} \cup {Some(l) : l \in AllListingIds \cup {"l3"}}
RequestFilters == {None} \cup {Some(r) : r \in RequestIds \cup {"r2"}}
StatusFilters == {None, Some("pending")}
MaxLimit == 2        \* largest limit of a query

\* One request is answered on each store.
ClaimReadNext ==
    \E u \in AllGrowers \cup AllGatherers \cup {"x"}, l \in ListingFilters, r \in RequestFilters,
       s \in StatusFilters, limit \in 1..MaxLimit, offset \in 0..1 :
       /\ response = json_response(0)
       /\ list_claims(u, l, r, s, limit, offset)

SpecClaimRead == ClaimReadInit /\ [][ClaimReadNext]_vars

\* list_claims has answered.
Answered == "items" \in DOMAIN response

\* The caller of the answered request is the claimer of claim id or the owner
\* of its listing, and that listing is not soft-deleted.
ParticipantOfLiveListing(id) ==
    /\ claims[id].listing_id \in DOMAIN listings
    /\ ~listings[claims[id].listing_id].deleted
    /\ \/ claims[id].claimer_id = response.actor
       \/ listings[claims[id].listing_id].user_id = response.actor

\* The caller neither owns listing l nor has a claim on it.
NeitherOwnerNorClaimer(l) ==
    /\ listings[l].user_id # response.actor
    /\ \A c \in DOMAIN claims :
          ~(claims[c].listing_id = l /\ claims[c].claimer_id = response.actor)

\* The caller neither owns request r nor owns a listing, of the set ls, that
\* has a claim linked to r.
NeitherOwnerNorLinkedOwner(r, ls) ==
    /\ requests[r].user_id # response.actor
    /\ \A c \in DOMAIN claims :
          ~(/\ claims[c].request_id = Some(r)
            /\ claims[c].listing_id \in ls
            /\ listings[claims[c].listing_id].user_id = response.actor)

\* Every item returned is a claim of the store, matching the filters, on a
\* non-deleted listing, of which the caller is the claimer or the listing's owner.
OnlyParticipantClaims ==
    \A i \in DOMAIN response.items :
        LET id == response.items[i]
        IN /\ id \in DOMAIN claims
           /\ ParticipantOfLiveListing(id)
           /\ IsNull(response.query.listing_id)
                 \/ Some(claims[id].listing_id) = response.query.listing_id
           /\ IsNull(response.query.request_id)
                 \/ claims[id].request_id = response.query.request_id
           /\ IsNull(response.query.status) \/ Some(claims[id].status) = response.query.status

\* C29 as stated: list_claims returns only claims on non-deleted listings
\* of which the caller is claimer or owner, under every combination of
\* filters; a listing_id filter naming a listing of which the caller is
\* neither owner nor claimer, and a request_id filter naming a request of
\* which the caller is neither the owner nor the owner of a listing with a
\* claim linked to it, are rejected as Forbidden.
C29_ForeignFiltersForbidden ==
    Answered =>
        /\ OnlyParticipantClaims
        /\ \A l \in DOMAIN listings :
              (response.query.listing_id = Some(l) /\ NeitherOwnerNorClaimer(l))
                 => response.error \in ForbiddenMessages
        /\ \A r \in DOMAIN requests :
              (response.query.request_id = Some(r)
                 /\ NeitherOwnerNorLinkedOwner(r, DOMAIN listings))
                 => response.error \in ForbiddenMessages

\* The non-deleted rows of a table.
Live(rows) == {id \in DOMAIN rows : ~rows[id].deleted}

\* The listing filter of the answered request passed: there is none, or it
\* names a non-deleted listing the caller owns or has a claim on.
ListingFilterPassed ==
    \/ IsNull(response.query.listing_id)
    \/ \E l \in Live(listings) :
          response.query.listing_id = Some(l) /\ ~NeitherOwnerNorClaimer(l)

\* C29, amended: the items are only claims on non-deleted listings of which
\* the caller is claimer or owner, under every combination of filters, and
\* a rejected request returns none.  A caller without a user type is
\* rejected as Forbidden.  Otherwise the listing_id filter is judged first:
\* naming no non-deleted listing it is rejected as not found, naming a
\* non-deleted listing of which the caller is neither owner nor claimer as
\* Forbidden.  When it passed, a request_id filter naming no non-deleted
\* request is rejected as not found, and one naming a non-deleted request of
\* which the caller is neither the owner nor the owner of a non-deleted
\* listing with a claim linked to it as Forbidden.  Every other request is
\* answered.
C29_FiltersAccessChecked ==
    Answered =>
        LET q == response.query
            typed == ~IsNull(user_type(response.actor))
        IN /\ OnlyParticipantClaims
           /\ response.error # "none" => response.items = << >>
           /\ ~typed => response.error = MsgTypeNotSet
           /\ (typed /\ ~IsNull(q.listing_id)) =>
                 /\ Unwrap(q.listing_id) \notin Live(listings)
                       => response.error = MsgListingNotFound
                 /\ \A l \in Live(listings) :
                       (q.listing_id = Some(l) /\ NeitherOwnerNorClaimer(l))
                          => response.error = MsgListingFilterForbidden
           /\ (typed /\ ListingFilterPassed /\ ~IsNull(q.request_id)) =>
                 /\ Unwrap(q.request_id) \notin Live(requests)
                       => response.error = MsgRequestNotFound
                 /\ \A r \in Live(requests) :
                       q.request_id = Some(r) =>
                          response.error = IF NeitherOwnerNorLinkedOwner(r, Live(listings))
                                           THEN MsgRequestFilterForbidden ELSE "none"
           /\ (typed /\ ListingFilterPassed /\ IsNull(q.request_id))
                 => response.error = "none"

\* Grower h, who neither owns listing l1 nor has a claim on it, asked for the
\* claims of l1 and was refused, while l1 has a claim.
C29_Witness ==
    /\ Answered
    /\ response.actor = "h"
    /\ response.query.listing_id = Some("l1")
    /\ ~listings["l1"].deleted
    /\ \E c \in DOMAIN claims : claims[c].listing_id = "l1"
    /\ response.error = MsgListingFilterForbidden
    /\ response.items = << >>

\* ------------------------------------------------------------------ feed.rs
DEFAULT_WINDOW_DAYS == 7
SummaryHours == 6    \* ai.rs: expires_at = generated_at + Duration::hours(6)

MsgGeoKeyRequired == "geoKey is required"
MsgGeoKeyInvalid == "geoKey must be a valid geohash (1-12 chars, base32)"

\* The characters is_valid_geo_key admits among those of this model.
GeohashChars == {"8", "9", "d", "k", "q", "r", "y", "5"}

is_valid_geo_key(value) ==
    /\ Len(value) >= 1
    /\ Len(value) <= 12
    /\ \A i \in DOMAIN value : value[i] \in GeohashChars

\* parse_derived_feed_query on the geoKey and windowDays of the query string
\* (window_days None when absent); limit and offset keep their defaults.
parse_derived_feed_query(geo_key, window_days) ==
    IF normalized(geo_key) = << >> THEN [ok |-> FALSE, err |-> MsgGeoKeyRequired]
    ELSE IF ~is_valid_geo_key(normalized(geo_key)) THEN [ok |-> FALSE, err |-> MsgGeoKeyInvalid]
    ELSE [ok |-> TRUE, err |-> "none", geo_key |-> normalized(geo_key),
          window_days |-> IF IsNull(window_days) THEN DEFAULT_WINDOW_DAYS
                          ELSE Unwrap(window_days)]

\* derive_geo_prefix: the first four characters, or the whole key if shorter.
derive_geo_prefix(geo_key) == SubSeq(geo_key, 1, Least(4, Len(geo_key)))

\* The rows of the table in a feed scope: schema version, window and
\* geo_boundary_key like 'prefix%'.
InFeedScope(table, geo_prefix, window_days, schema_version) ==
    {k \in DOMAIN table : /\ k[1] = schema_version
                          /\ k[4] = window_days
                          /\ Like(Some(k[2]), geo_prefix)}

\* Of the keys ks, for each (geo_boundary_key, crop scope) the one computed
\* last; rows of equal computed_at are told apart by their bucket.
LatestPerScope(table, ks) ==
    {k \in ks : \A j \in ks :
        (j[2] = k[2] /\ j[3] = k[3]) =>
           \/ table[j].computed_at < table[k].computed_at
           \/ (table[j].computed_at = table[k].computed_at /\ j[5] <= k[5])}

\* list_latest_derived_supply_signals: the rows of the scope not expired at
\* as_of, the latest per (geo_boundary_key, crop scope).
list_latest_derived_supply_signals(table, geo_prefix, window_days, schema_version, as_of) ==
    LatestPerScope(table,
        {k \in InFeedScope(table, geo_prefix, window_days, schema_version) :
            table[k].expires_at > as_of})

\* Mutant: the fallback query without its distinct on.
FallbackRows_every_row(table, geo_prefix, window_days) ==
    InFeedScope(table, geo_prefix, window_days, 1)

\* The fallback query: distinct on (geo_boundary_key, crop_scope_id) ordered
\* by computed_at desc, whatever expires_at is.
FallbackRows(table, geo_prefix, window_days) ==
    LatestPerScope(table, InFeedScope(table, geo_prefix, window_days, 1))

\* The listings of the feed: active, not deleted, geo_key like 'prefix%'.
FeedItems(ls, geo_prefix) ==
    {id \in DOMAIN ls : /\ ~ls[id].deleted
                        /\ ls[id].status = "active"
                        /\ Like(ls[id].geo_key, geo_prefix)}

SummaryKey(geo_prefix, window_days) == <<1, geo_prefix, window_days>>

\* load_or_generate_ai_summary: none without signals; the cached row while
\* it has not expired; else a generated one, persisted by upsert; a failed
\* generation leaves the response without a summary.
AiSummaryOutcome(table, geo_prefix, window_days, signal_keys, generated) ==
    LET key == SummaryKey(geo_prefix, window_days)
    IN IF signal_keys = {} THEN [ai_summary |-> None, table |-> table]
       ELSE IF key \in DOMAIN table /\ table[key].expires_at > now
       THEN [ai_summary |-> Some([generated_at |-> table[key].generated_at,
                                  from_cache |-> TRUE]),
             table |-> table]
       ELSE IF ~generated THEN [ai_summary |-> None, table |-> table]
       ELSE [ai_summary |-> Some([generated_at |-> now, from_cache |-> FALSE]),
             table |-> [k \in DOMAIN table \cup {key} |->
                          IF k = key
                          THEN [generated_at |-> now, expires_at |-> now + SummaryHours * Hour,
                                signal_snapshot |-> signal_keys]
                          ELSE table[k]]]

\* get_derived_feed; generated tells whether the summary generator answers.
\* The signals of the response are given by their row keys.
get_derived_feed(user_id, geo_key, window_days, generated) ==
    LET query == parse_derived_feed_query(geo_key, window_days)
    IN /\ IF ~query.ok
          THEN /\ response' = [error |-> query.err, geo_key |-> geo_key, as_of |-> now,
                               window_days |-> 0, feed_items |-> {}, signals |-> {},
                               is_stale |-> FALSE, stale_fallback_used |-> FALSE,
                               ai_summary |-> None]
               /\ UNCHANGED summaries
          ELSE LET geo_prefix == derive_geo_prefix(query.geo_key)
                   as_of == now
                   fresh_rows == list_latest_derived_supply_signals(
                                    signals, geo_prefix, query.window_days, 1, as_of)
                   signal_rows == IF fresh_rows = {}
                                  THEN FallbackRows(signals, geo_prefix, query.window_days)
                                  ELSE fresh_rows
                   summary == AiSummaryOutcome(summaries, geo_prefix, query.window_days,
                                               signal_rows, generated)
               IN /\ response' = [error |-> "none", geo_key |-> query.geo_key,
                                  as_of |-> as_of, window_days |-> query.window_days,
                                  feed_items |-> FeedItems(listings, geo_prefix),
                                  signals |-> signal_rows,
                                  is_stale |-> fresh_rows = {},
                                  stale_fallback_used |-> fresh_rows = {},
                                  ai_summary |-> summary.ai_summary]
                  /\ summaries' = summary.table
       /\ UNCHANGED << listings, claims, requests, now, tx, events, log, signals, checkpoint, run >>

\* A row of the table computed at an instant, with the retention of its window.
FeedSignalRow(window_days, computed_at) ==
    [aggregates |-> Aggregates(<< >>, << >>, GeoScope(<< >>, None), 0),
     computed_at |-> computed_at,
     expires_at |-> computed_at + retention_days(window_days) * Day,
     window_days |-> window_days, source |-> "live"]

K4 == SubSeq(K7, 1, 4)
KOther == <<"d", "r", "5", "r">>

\* The rows a table of the feed specification is made of: key and instant
\* of computation; the first key was computed in its bucket or replayed later.
FeedCandidates ==
    {<<SignalKey(GeoScope(K4, None), 7, 0), 0>>,
     <<SignalKey(GeoScope(K4, None), 7, 0), 400>>,
     <<SignalKey(GeoScope(K4, None), 7, 300), 300>>,
     <<SignalKey(GeoScope(K4, Some("c1")), 7, 0), 0>>,
     <<SignalKey(GeoScope(K5, None), 7, 300), 300>>,
     <<SignalKey(GeoScope(K4, None), 14, 0), 0>>,
     <<SignalKey(GeoScope(KOther, None), 7, 0), 0>>}

\* The instants at which the feed is read: before any expiry, between the
\* expiries of the 7-day rows computed at 300 and at 400, and after all.
FeedInstants == {0, 35 * Day + 350, 50 * Day}

FeedInit ==
    \E chosen \in SUBSET FeedCandidates, t \in FeedInstants, cached \in BOOLEAN :
       /\ \A c \in chosen, d \in chosen : c[1] = d[1] => c = d
       /\ listings = [id \in {"l1"} |-> WorkerListingRow(Some(K7), Some("c1"), Some(1), "active", 0, FALSE)]
       /\ requests = << >>
       /\ claims = << >>
       /\ now = t
       /\ response = json_response(0)
       /\ tx = [x \in TxIds |-> IdleTx]
       /\ events = {}
       /\ log = {}
       /\ signals = [k \in {c[1] : c \in chosen} |->
                       FeedSignalRow(k[4], (CHOOSE c \in chosen : c[1] = k)[2])]
       /\ checkpoint = << >>
       /\ run = IdleRun
       /\ summaries = IF cached
                      THEN [k \in {SummaryKey(K4, 7)} |->
                              [generated_at |-> t, expires_at |-> t + SummaryHours * Hour,
                               signal_snapshot |-> {}]]
                      ELSE << >>

FeedGeoKeys == {K7, K3, KU, KOther, <<"a">>, <<" ">>}

\* One request is answered on each store.
FeedNext ==
    \E u \in {"a"}, g \in FeedGeoKeys, w \in {None, Some(7), Some(14)}, generated \in BOOLEAN :
       /\ response = json_response(0)
       /\ get_derived_feed(u, g, w, generated)

SpecFeed == FeedInit /\ [][FeedNext]_vars

\* The feed has answered a valid query.
FeedAnswered == "stale_fallback_used" \in DOMAIN response /\ response.error = "none"

\* The rows of the requested scope and window: those whose geo_boundary_key
\* starts with the first four characters of the geoKey asked for.
RequestedScope ==
    {k \in DOMAIN signals :
        /\ k[1] = SCHEMA_VERSION
        /\ k[4] = response.window_days
        /\ \A i \in 1..4 : i <= Len(response.geo_key) =>
                               (i <= Len(k[2]) /\ k[2][i] = response.geo_key[i])}

NonExpired == {k \in RequestedScope : signals[k].expires_at > response.as_of}

C30_FreshWitness ==
    /\ FeedAnswered
    /\ ~response.is_stale
    /\ response.signals # {}
    /\ RequestedScope \ NonExpired # {}

\* ------------------------------------------------------------------ listing status
\* One listing of grower g in any of the five statuses (create_listing and
\* update_listing write the status of the payload as it is) and two claims of
\* gatherer a, each pending or confirmed, the confirmed ones held against the
\* listing; then whole transition_claim calls while the clock advances.
StatusClaim(q, confirmed) ==
    IF confirmed
    THEN [PendingClaim("l1", "a", q) EXCEPT !.status = "confirmed", !.confirmed_at = Some(0)]
    ELSE PendingClaim("l1", "a", q)

StatusInit ==
    \E Q \in 1..MaxTotal, s \in ALLOWED_LISTING_STATUS, q1 \in 1..MaxQty, q2 \in 1..MaxQty,
       c1 \in BOOLEAN, c2 \in BOOLEAN :
        LET held == (IF c1 THEN q1 ELSE 0) + (IF c2 THEN q2 ELSE 0)
        IN /\ held <= Q
           /\ listings = [lid \in {"l1"} |->
                  [InsertListingRow("g", "c1", Q, s) EXCEPT
                      !.quantity_remaining = Some(Q - held)]]
           /\ claims = [id \in {1, 2} |->
                  IF id = 1 THEN StatusClaim(q1, c1) ELSE StatusClaim(q2, c2)]
           /\ requests = << >>
           /\ now = 0
           /\ response = json_response(0)
           /\ tx = [t \in TxIds |-> IdleTx]
           /\ PipelineInit

StatusNext ==
    \/ Tick
    \/ \E u \in Users, id \in ClaimIds, s \in ALLOWED_CLAIM_STATUSES :
          transition_claim(u, id, s, None)

SpecListingStatus == StatusInit /\ [][StatusNext]_vars

DecrementEdges == {<<"pending", "confirmed">>}
IncrementEdges == {<<"confirmed", "cancelled">>, <<"confirmed", "no_show">>}

\* C31: a transition that decrements sets the listing's status to claimed
\* when the resulting quantity_remaining is <= 0 and leaves the status as it
\* was otherwise; a transition that increments sets the status to active when
\* it was claimed and leaves it as it was otherwise; a transition with no
\* inventory adjustment leaves the listing row untouched.
C31_StatusFollowsAdjustment ==
    [][ /\ (\A id \in DOMAIN claims : claims'[id].status = claims[id].status)
           => listings' = listings
        /\ \A id \in DOMAIN claims :
              LET lid == claims[id].listing_id
                  edge == << claims[id].status, claims'[id].status >>
              IN claims'[id].status # claims[id].status =>
                   /\ edge \in DecrementEdges =>
                        listings'[lid].status =
                           IF Unwrap(listings'[lid].quantity_remaining) <= 0
                           THEN "claimed" ELSE listings[lid].status
                   /\ edge \in IncrementEdges =>
                        listings'[lid].status =
                           IF listings[lid].status = "claimed"
                           THEN "active" ELSE listings[lid].status
                   /\ edge \notin DecrementEdges \cup IncrementEdges =>
                        listings' = listings ]_vars

\* At clock reading 1 a confirm has taken the last of the listing and left
\* it claimed, with the other claim still pending.
C31_Witness ==
    /\ response = json_response(200)
    /\ claims[1].status = "confirmed"
    /\ claims[1].confirmed_at = Some(1)
    /\ claims[2].status = "pending"
    /\ listings["l1"].status = "claimed"
    /\ listings["l1"].quantity_remaining = Some(0)

\* At clock reading 1 a cancel of a confirmed claim has left an expired
\* listing expired.
C31_IncrementWitness ==
    /\ response = json_response(200)
    /\ claims[1].status = "cancelled"
    /\ claims[1].cancelled_at = Some(1)
    /\ ~IsNull(claims[1].confirmed_at)
    /\ listings["l1"].status = "expired"

\* C38: a claim transition never changes the status of a listing whose status
\* is expired, completed or pending (its status flips only between active
\* and claimed).
C38_OnlyActiveClaimedFlip ==
    [][\A lid \in DOMAIN listings :
          listings[lid].status \in {"expired", "completed", "pending"}
             => listings'[lid].status = listings[lid].status]_vars

\* ------------------------------------------------------------------ failed transitions
\* C37: a transition_claim call that ends in an error (claim not found,
\* Forbidden, invalid transition, insufficient quantity) leaves the claim rows
\* and the listing rows as they were and publishes no event; and a call that
\* moves the inventory also changes the claim's status and answers 200.
C37_ErrorLeavesRowsAndNoEvent ==
    \A bus \in BusOutcomes, u \in Users, s \in ALLOWED_CLAIM_STATUSES :
       LET p == TransitionClaimPublished(bus, u, 1, s)
       IN /\ p.response.code # 200 =>
                /\ p.listings = listings
                /\ p.claims = claims
                /\ p.events = events
          /\ p.listings # listings =>
                /\ p.response.code = 200
                /\ p.claims[1].status # claims[1].status

\* A confirm of a claim of MaxQty has failed for insufficient quantity on a
\* listing that holds less: the claim is pending, the listing as it was, and
\* no claim.updated event is on the bus.
C37_Witness ==
    /\ response = map_api_error_to_response(MsgInsufficient)
    /\ 1 \in DOMAIN claims
    /\ claims[1].status = "pending"
    /\ Unwrap(listings["l1"].quantity_remaining) < claims[1].quantity_claimed
    /\ \A e \in events : e.detail_type # "claim.updated"

\* A transition of the claimer has been refused as Forbidden.
C37_ForbiddenWitness ==
    /\ response = map_api_error_to_response(MsgOwnerConfirm)
    /\ claims[1].status = "pending"
    /\ \A e \in events : e.detail_type # "claim.updated"

\* ------------------------------------------------------------------ a claim on one's own listing
\* PUT /me overwrites users.user_type with the payload's (user.rs 56-70), and
\* create_claim compares the claimer with nobody: a user who listed as a
\* grower and became a gatherer can claim their own listing.  Listing l1 of
\* user g with claim 1 of g and claim 2 of gatherer a, both pending; then
\* whole transition_claim calls by anybody.
SelfClaimInit ==
    \E Q \in 1..MaxTotal, q1 \in 1..MaxQty, q2 \in 1..MaxQty :
        /\ q1 <= Q /\ q2 <= Q
        /\ listings = [lid \in {"l1"} |-> InsertListingRow("g", "c1", Q, "active")]
        /\ claims = [id \in {1, 2} |->
               IF id = 1 THEN PendingClaim("l1", "g", q1) ELSE PendingClaim("l1", "a", q2)]
        /\ requests = << >>
        /\ now = 0
        /\ response = json_response(0)
        /\ tx = [t \in TxIds |-> IdleTx]
        /\ PipelineInit

SelfClaimNext ==
    \/ Tick
    \/ \E u \in Users, id \in ClaimIds, s \in ALLOWED_CLAIM_STATUSES, n \in OptNotes :
          transition_claim(u, id, s, n)

SpecSelfClaim == SelfClaimInit /\ [][SelfClaimNext]_vars

\* C39: for a claim whose claimer owns the listing that user's role resolves
\* to Claimer, and the claim is never confirmed, completed or no_show: it is
\* pending or cancelled.
C39_SelfClaimOnlyCancelled ==
    \A id \in DOMAIN claims :
       claims[id].claimer_id = OwnerOf(id) =>
          /\ determine_actor_role(OwnerOf(id), claims[id].claimer_id, OwnerOf(id)).role
                = "Claimer"
          /\ claims[id].status \in {"pending", "cancelled"}
          /\ \A u \in Users :
                ~Outcome(u, id, "confirmed", None).committed

\* The owner's confirm of their own pending claim has been refused while the
\* claim of gatherer a on the same listing is completed.
C39_Witness ==
    /\ response = map_api_error_to_response(MsgOwnerConfirm)
    /\ claims[1].claimer_id = OwnerOf(1)
    /\ claims[1].status = "pending"
    /\ claims[2].status = "completed"

\* The claim on one's own listing has been cancelled.
C39_CancelledWitness ==
    /\ claims[1].claimer_id = OwnerOf(1)
    /\ claims[1].status = "cancelled"
    /\ claims[1].cancelled_at = Some(1)

\* ------------------------------------------------------------------ inventory held by claims
\* Histories without update_listing: create_listing and create_claim run
\* whole; transition_claim runs whole, and step by step on connection t1, so
\* that calls meet an open transaction holding the row locks.
NoUpdateNext ==
    \/ \E q \in 1..MaxTotal, s \in OptListingStatus :
          /\ listings = << >>
          /\ create_listing("g", Some("k1"), "l1", "c1", q, s)
    \/ \E q \in 1..MaxQty : create_claim("a", "l1", None, q, None)
    \/ \E u \in {"g", "a"}, id \in ClaimIds, target \in ALLOWED_CLAIM_STATUSES :
          transition_claim(u, id, target, None)
    \/ /\ claims # << >>
       /\ tc_begin("t1")
    \/ \E id \in ClaimIds : tc_lock_claim("t1", id)
    \/ tc_lock_listing("t1")
    \/ \E u \in {"g", "a"}, target \in ALLOWED_CLAIM_STATUSES :
          tc_finish("t1", u, target, None)
    \/ tc_return("t1")

SpecNoUpdate == Init /\ [][NoUpdateNext]_vars

HoldingStatuses == {"confirmed", "completed"}

\* C36: with no update_listing in the history, a listing's quantity_remaining
\* is its quantity_total less the sum of quantity_claimed over its claims
\* that are confirmed or completed.
C36_RemainingIsTotalLessHeld ==
    \A lid \in DOMAIN listings :
       listings[lid].quantity_remaining =
          Some(listings[lid].quantity_total
                  - SumClaimed(DOMAIN claims, lid, HoldingStatuses))

\* One claim completed and holding its quantity, the other confirmed and then
\* cancelled and holding nothing.
C36_Witness ==
    /\ Cardinality(DOMAIN claims) = 2
    /\ claims[1].status = "completed"
    /\ claims[2].status = "cancelled"
    /\ ~IsNull(claims[2].confirmed_at)
    /\ listings["l1"].quantity_remaining
          = Some(listings["l1"].quantity_total - claims[1].quantity_claimed)

\* ------------------------------------------------------------------ lock order
\* create_claim and update_listing on a connection, split where they can
\* wait.  create_claim: BEGIN, SELECT ... FOR UPDATE of the listing row, then
\* the rest up to COMMIT (the INSERT locks no row another transaction can
\* hold).  update_listing: one UPDATE statement, which waits for the row lock
\* of the listing and commits by itself.
cc_begin(t) ==
    /\ tx[t].pc = "idle"
    /\ tx' = [tx EXCEPT ![t] = [IdleTx EXCEPT !.pc = "begun", !.op = "create_claim",
                                              !.start = now]]
    /\ UNCHANGED << pipeline, listings, claims, requests, now, response >>

cc_lock_listing(t, listing_id) ==
    /\ tx[t].pc = "begun"
    /\ tx[t].op = "create_claim"
    /\ IF listing_id \notin DOMAIN listings \/ listings[listing_id].deleted
       THEN tx' = [tx EXCEPT ![t] = [@ EXCEPT !.pc = "done", !.listing = listing_id,
                       !.response = error_response(404, MsgListingNotFound)]]
       ELSE /\ ~ListingLocked(listing_id)
            /\ tx' = [tx EXCEPT ![t] = [@ EXCEPT !.pc = "locked", !.listing = listing_id]]
    /\ UNCHANGED << pipeline, listings, claims, requests, now, response >>

\* Mutant: create_claim also locks the claims of the listing (FOR UPDATE)
\* before its INSERT.
cc_finish_locks_claims(t, claimer_id, quantity_claimed) ==
    /\ tx[t].pc = "locked"
    /\ tx[t].op = "create_claim"
    /\ \A id \in DOMAIN claims : claims[id].listing_id = tx[t].listing => ~ClaimLocked(id)
    /\ LET out == CreateClaimOutcome(listings, claims, requests, claimer_id,
                                     tx[t].listing, None, quantity_claimed, None,
                                     tx[t].start)
       IN /\ listings' = out.listings
          /\ claims' = out.claims
          /\ tx' = [tx EXCEPT ![t] = [@ EXCEPT !.pc = "done",
                                               !.response = out.response]]
    /\ UNCHANGED << pipeline, requests, now, response >>

\* The status and quantity tests, the INSERT and COMMIT (or the drop of the
\* transaction on an error).
cc_finish(t, claimer_id, quantity_claimed) ==
    /\ tx[t].pc = "locked"
    /\ tx[t].op = "create_claim"
    /\ LET out == CreateClaimOutcome(listings, claims, requests, claimer_id,
                                     tx[t].listing, None, quantity_claimed, None,
                                     tx[t].start)
       IN /\ listings' = out.listings
          /\ claims' = out.claims
          /\ tx' = [tx EXCEPT ![t] = [@ EXCEPT !.pc = "done",
                                               !.response = out.response]]
    /\ UNCHANGED << pipeline, requests, now, response >>

ul_begin(t) ==
    /\ tx[t].pc = "idle"
    /\ tx' = [tx EXCEPT ![t] = [IdleTx EXCEPT !.pc = "begun", !.op = "update_listing",
                                              !.start = now]]
    /\ UNCHANGED << pipeline, listings, claims, requests, now, response >>

ul_statement(t, user_id, id, quantity_total, status) ==
    /\ tx[t].pc = "begun"
    /\ tx[t].op = "update_listing"
    /\ ~ListingLocked(id)
    /\ LET out == UpdateListingOutcome(listings, user_id, id, "c1", quantity_total, status)
       IN /\ listings' = out.listings
          /\ tx' = [tx EXCEPT ![t] = [@ EXCEPT !.pc = "done", !.listing = id,
                                               !.response = out.response]]
    /\ UNCHANGED << pipeline, claims, requests, now, response >>

\* Listing l1 of total Q with two claims, pending or confirmed; each of the
\* two connections runs one transaction of any of the three kinds.
LocksInit ==
    \E Q \in 1..MaxTotal, q \in 1..MaxQty, confirmed \in BOOLEAN :
        /\ q <= Q
        /\ listings = [lid \in {"l1"} |->
               [InsertListingRow("g", "c1", Q, "active") EXCEPT
                   !.quantity_remaining = Some(IF confirmed THEN Q - q ELSE Q)]]
        /\ claims = [id \in {1, 2} |->
               IF id = 1 THEN StatusClaim(q, confirmed) ELSE PendingClaim("l1", "a", 1)]
        /\ requests = << >>
        /\ now = 0
        /\ response = json_response(0)
        /\ tx = [t \in TxIds |-> IdleTx]
        /\ PipelineInit

\* The steps of the transaction of connection t after its start.
LockStep(t) ==
    \/ \E id \in ClaimIds : tc_lock_claim(t, id)
    \/ tc_lock_listing(t)
    \/ \E u \in {"g", "a"}, target \in ALLOWED_CLAIM_STATUSES : tc_finish(t, u, target, None)
    \/ \E lid \in AllListingIds : cc_lock_listing(t, lid)
    \/ \E q \in 1..MaxQty : cc_finish(t, "a", q)
    \/ \E lid \in ListingIds, q \in 1..MaxTotal, s \in OptListingStatus :
          ul_statement(t, "g", lid, q, s)

LocksNext ==
    \/ \E t \in TxIds : tc_begin(t)
    \/ \E t \in TxIds : cc_begin(t)
    \/ \E t \in TxIds : ul_begin(t)
    \/ \E t \in TxIds : LockStep(t)

\* A handler that is not waiting for a row lock goes on, and a row lock that
\* is free is granted to the transaction waiting for it.
LocksFair == \A t \in TxIds : WF_vars(LockStep(t))

SpecLocks == LocksInit /\ [][LocksNext]_vars /\ LocksFair

\* C32: every started create_claim, transition_claim or update_listing
\* transaction ends (commits or is rolled back): no interleaving leaves a
\* transaction waiting for ever for a row lock.
C32_EveryTransactionEnds ==
    \A t \in TxIds : (tx[t].pc \notin {"idle", "done"}) ~> (tx[t].pc = "done")

\* A transition holds its claim row and waits for the listing row, which a
\* create_claim transaction holds.
C32_Witness ==
    \E t, u \in TxIds :
       /\ tx[t].op = "transition"
       /\ tx[t].pc = "claim_locked"
       /\ tx[u].op = "create_claim"
       /\ tx[u].pc = "locked"
       /\ tx[u].listing = tx[t].listing

\* ------------------------------------------------------------------ recovery of lost events
\* update_listing whose listing.updated event the bus does not take: the row
\* is written (geo_key and crop_id as they were), the failure is logged with
\* the event and its time, and the handler answers 200.
update_listing_unpublished(id, status) ==
    /\ run.result # "running"
    /\ id \in DOMAIN listings
    /\ ~listings[id].deleted
    /\ listings' = [listings EXCEPT ![id] =
                       UpdateListingRow(@, @.crop_id, @.quantity_total, status)]
    /\ log' = log \cup {[detail_type |-> "listing.updated", event |-> ListingEvent(id),
                         occurred_at |-> now]}
    /\ UNCHANGED << claims, requests, now, response, tx, events, signals, checkpoint, run, summaries >>

\* FROM_TS of the replay runs that follow.
RecoveryFromTs == {Some(0), Some(ClockStep)}

\* A listing and a request created at instant 0; updates of the listing whose
\* events are lost, then replay runs that write, with TO_TS = 400.
RecoveryInit ==
    WorkerStore(WorkerListingRow(Some(K5), Some("c1"), Some(1), "active", 0, FALSE),
                WorkerRequestRow(Some(K7), Some("c1"), 1, "open", 0, FALSE))

RecoveryNext ==
    \/ Elapse
    \/ \E status \in {"active", "expired"} : update_listing_unpublished("l1", status)
    \/ \E from_ts \in RecoveryFromTs : replay_start("replay", from_ts, Some(400), FALSE, FALSE)
    \/ recompute_query
    \/ recompute_upsert

SpecRecovery == RecoveryInit /\ [][RecoveryNext]_vars

\* C33: after a replay run that writes, over [from, to), every (scope,
\* window) pair the live aggregator resolves for an event lost at an instant
\* of [from, to) has been recomputed by the run.
C33_ReplayRecoversLostEvents ==
    (ReplayDone /\ ~run.dry_run /\ run.mode = "replay") =>
        \A lost \in log :
           (Unwrap(run.from) <= lost.occurred_at /\ lost.occurred_at < run.to) =>
              ScopeWindows(resolve_scopes(listings, requests, lost.event))
                 \subseteq run.visited

\* ------------------------------------------------------------------ series of replay runs
\* TO_TS of the runs of a series: one, two and three days after instant 0.
SeriesToTs == {Some(Day), Some(2 * Day), Some(3 * Day)}

\* The clock reads three days; a listing was created in the second day and
\* no checkpoint file exists.  The driver then runs in replay mode with
\* CHECKPOINT_FILE set, FROM_TS and DRY_RUN unset and TO_TS of its choice.
SeriesInit ==
    \E g \in {K5, K7} :
       /\ listings = [id \in {"l1"} |->
             WorkerListingRow(Some(g), Some("c1"), Some(1), "active", Day + ClockStep, FALSE)]
       /\ requests = << >>
       /\ claims = << >>
       /\ now = 3 * Day
       /\ response = json_response(0)
       /\ tx = [t \in TxIds |-> IdleTx]
       /\ PipelineInit

SeriesNext ==
    \/ \E to_ts \in SeriesToTs : replay_start("replay", None, to_ts, TRUE, FALSE)
    \/ recompute_query
    \/ recompute_upsert

SpecSeries == SeriesInit /\ [][SeriesNext]_vars

\* C34: a replay run without FROM_TS starts its window at last_processed_to
\* of the checkpoint file when the file exists and at to - 24h otherwise;
\* and of two consecutive runs of a series the later one's window starts no
\* later than the earlier one's ends, so that no instant between the first
\* from and the last to is outside every window [from, to).
C34_WindowsLeaveNoGap ==
    /\ (run.worker = "replay" /\ run.result = "running") =>
          run.from = IF IsNull(checkpoint) THEN Some(run.to - 24 * Hour)
                     ELSE Some(Unwrap(checkpoint).last_processed_to)
    /\ (run.worker = "replay" /\ run.count >= 2 /\ Unwrap(run.previous).to <= run.to) =>
          Unwrap(run.from) <= Unwrap(run.previous).to

\* ------------------------------------------------------------------ the two recomputes
\* The clock reads ten days.  A listing and a request of crop c1, the listing
\* in any status, with or without a geo_key and a quantity_remaining, created
\* at instant 0 (outside the 7-day window) or in the tenth day, possibly
\* soft-deleted; the request open or closed.
RecomputeInit ==
    \E g \in {None, Some(K5), Some(K7)}, status \in ALLOWED_LISTING_STATUS,
       q \in {None, Some(MaxTotal)}, created_at \in {0, 9 * Day}, deleted \in BOOLEAN,
       rstatus \in {"open", "closed"} :
       /\ listings = [id \in {"l1"} |->
             WorkerListingRow(g, Some("c1"), q, status, created_at, deleted)]
       /\ requests = [id \in {"r1"} |->
             WorkerRequestRow(Some(K7), Some("c1"), 1, rstatus, 9 * Day, FALSE)]
       /\ claims = << >>
       /\ now = 10 * Day
       /\ response = json_response(0)
       /\ tx = [t \in TxIds |-> IdleTx]
       /\ PipelineInit

\* The live aggregator handles an event of the request and the replay driver
\* runs a backfill for the bucket of instant 0, in either order, with the
\* store and the clock as they are.
RecomputeNext ==
    \/ /\ run.worker # "live"
       /\ handler_start(RequestEvent("r1"))
    \/ /\ run.worker # "replay"
       /\ replay_start("backfill", None, Some(0), FALSE, FALSE)
    \/ recompute_query
    \/ recompute_upsert

SpecRecompute == RecomputeInit /\ [][RecomputeNext]_vars

\* The rows of a table the specification counts for a scope and a window:
\* not deleted, status among statuses, created in the last window_days days,
\* geo_key starting with the scope's prefix, crop matching the scope.
Counted(rows, statuses, scope, window_days) ==
    {id \in DOMAIN rows :
        /\ ~rows[id].deleted
        /\ rows[id].status \in statuses
        /\ now - rows[id].created_at <= window_days * Day
        /\ ~IsNull(rows[id].geo_key)
        /\ \E n \in 0..Len(Unwrap(rows[id].geo_key)) :
              SubSeq(Unwrap(rows[id].geo_key), 1, n) = scope.geo_boundary_key
        /\ scope.crop_id \in {None, rows[id].crop_id}}

\* The supply of a set of listings of one store of this specification: each
\* holds MaxTotal or has no quantity_remaining.
Supply(ids) ==
    MaxTotal * Cardinality({id \in ids : ~IsNull(listings[id].quantity_remaining)})

\* C35: for the same store, scope, window and clock reading the row of the
\* live aggregator and the row of the replay driver carry the same counts,
\* sums and scores, namely the count and the quantity_remaining sum of the
\* non-deleted active, pending or claimed listings and the count and the
\* quantity sum of the non-deleted open requests that were created in the
\* window, whose geo_key starts with the scope's prefix and whose crop
\* matches the scope, with scarcity = demand / (supply + 1) and abundance =
\* supply / (demand + 1).
C35_LiveAndReplayAgree ==
    /\ \A k \in DOMAIN signals :
          LET scope == GeoScope(k[2], k[3])
              ls == Counted(listings, {"active", "pending", "claimed"}, scope, k[4])
              rs == Counted(requests, {"open"}, scope, k[4])
              a == signals[k].aggregates
          IN /\ a.listing_count = Cardinality(ls)
             /\ a.request_count = Cardinality(rs)
             /\ a.supply_quantity = Supply(ls)
             /\ a.demand_quantity = Cardinality(rs)
             /\ a.scarcity_score = <<a.demand_quantity, a.supply_quantity + 1>>
             /\ a.abundance_score = <<a.supply_quantity, a.demand_quantity + 1>>
    /\ \A k, j \in DOMAIN signals :
          (k[2] = j[2] /\ k[3] = j[3] /\ k[4] = j[4])
             => signals[k].aggregates = signals[j].aggregates

\* Both workers have written the row of the 4-character prefix, all crops
\* and 30 days, counting the listing and the request; the listing is older
\* than 7 days.
C35_Witness ==
    /\ \E k, j \in DOMAIN signals :
          /\ k[2] = j[2] /\ k[3] = None /\ j[3] = None /\ k[4] = 30 /\ j[4] = 30
          /\ signals[k].source = "live"
          /\ signals[j].source = "replay"
          /\ signals[k].aggregates.listing_count = 1
          /\ signals[k].aggregates.request_count = 1
          /\ signals[k].aggregates.supply_quantity = MaxTotal
    /\ listings["l1"].created_at = 0

\* ------------------------------------------------------------------ a replay run that fails
\* Mutant: the checkpoint is written although the loop has ended on an error.
recompute_error_checkpoints ==
    /\ run.result = "running"
    /\ run.worker = "replay"
    /\ ~run.dry_run
    /\ run' = [run EXCEPT !.result = "error", !.current = << >>]
    /\ checkpoint' = CheckpointAfter(run)
    /\ UNCHANGED << listings, claims, requests, now, response, tx, events, log, signals, summaries >>

\* recompute_and_upsert returns Err (one of its queries or the upsert has
\* failed): the ? in the loop of main returns the error, and the process
\* ends before the code that writes the checkpoint.
recompute_error ==
    /\ run.result = "running"
    /\ run.worker = "replay"
    /\ ~run.dry_run
    /\ run' = [run EXCEPT !.result = "error", !.current = << >>]
    /\ UNCHANGED << listings, claims, requests, now, response, tx, events, log, signals, checkpoint, summaries >>

\* TO_TS of the runs that may fail.
FailureToTs == {Some(400), Some(700)}

\* The driver runs without DRY_RUN, with CHECKPOINT_FILE set, FROM_TS = 0
\* and TO_TS of its choice, in either mode; any recompute may fail.
FailureNext ==
    \/ \E mode \in {"replay", "backfill"}, to_ts \in FailureToTs :
          replay_start(mode, Some(0), to_ts, TRUE, FALSE)
    \/ recompute_query
    \/ recompute_upsert
    \/ recompute_error

SpecReplayFailure == ReplayInit /\ [][FailureNext]_vars

\* C40: a run in which a recompute or an upsert fails ends with the error and
\* leaves the checkpoint as it found it; the checkpoint changes only at the
\* end of a run that has recomputed and upserted every (scope, window) pair
\* of its scopes, and then holds that run's to.
C40_FailedRunWritesNoCheckpoint ==
    [][ /\ run'.result = "error" => checkpoint' = checkpoint
        /\ checkpoint' # checkpoint =>
              /\ run'.result = "ok"
              /\ run'.pending = {}
              /\ run'.visited = ScopeWindows(ReplayScopes(run))
              /\ run'.upserts = Cardinality(run'.visited)
              /\ Unwrap(checkpoint').last_processed_to = run.to ]_vars

\* The second run, over a later window, has failed after some upserts; the
\* checkpoint still holds the to of the first run.
C40_Witness ==
    /\ run.worker = "replay"
    /\ run.result = "error"
    /\ run.checkpoint_file
    /\ run.upserts > 0
    /\ run.pending # {}
    /\ ~IsNull(checkpoint)
    /\ Unwrap(checkpoint).last_processed_to < run.to

====
